---------------------------- MODULE Spec2Model ----------------------------
(***************************************************************************)
(* A model of OBody-NG's preset-identity table, actor registry, SKSE       *)
(* cosave codec and actor-change event dispatch.                           *)
(*                                                                         *)
(* Bytes are naturals 0..255, a preset name is a sequence of bytes, a      *)
(* 32-bit field is four bytes in little-endian order.  The buffer has the  *)
(* layout of the source's, at a size of BufferUnits records of 8 bytes     *)
(* instead of 65536 bytes, so that tables of a handful of entries fill it  *)
(* exactly, overflow it, and split names across it.                        *)
(***************************************************************************)
EXTENDS Integers, Sequences, FiniteSets, TLC

\* ------------------------------------------------------------------------
\* Bounds of the model
\* ------------------------------------------------------------------------

\* The buffer holds this many (form-ID, actor-state) records of 8 bytes.
BufferUnits == 2

\* The number of legacy StorageUtil entries one migration run sees at most.
MaxLegacyEntries == 2
\* How many times the process is started again.
MaxRestarts == 1
\* How many times the game is saved.
MaxSaves == 1
\* How many API calls are made from outside a listener.
MaxTopLevelCalls == 2
\* How many API calls listeners make while they handle events.
MaxListenerCalls == 2
\* How deep SendActorChangeEvent activations nest on one thread.
MaxNesting == 3
\* How many 4-byte words a record handed to the decoders has at most.
MaxDecoderWords == 7

\* ------------------------------------------------------------------------
\* Program constants
\* ------------------------------------------------------------------------

\* SaveFileState.h: constexpr size_t BufferSize = 65536 (scaled, see above;
\* the source's static_assert requires a multiple of the 8-byte record).
BufferSize == 8 * BufferUnits

\* Record type identifiers, compared for equality only.
ActorRegistryTypeID == "a0B0D9ea"
PresetNameIndexMapTypeID == "a0B0D9e0"

\* ActorState: bit 0 is actorChangeEventsAreBeingSent, bits 1..11 are spare,
\* bits 12..31 are presetIndex.
PresetIndexShift == 4096

\* AssignedPresetIndex::BitWidth == 20: presetIndex is a 20-bit field.
PresetIndexModulus == 1048576

\* The "absent" entry of a SparsePresetMapping, (SparsePresetIndex)-1.
AbsentPreset == -1

\* ------------------------------------------------------------------------
\* ActorState, the packed 32-bit word
\* ------------------------------------------------------------------------

PackActorState(presetIndex, spare, sending) ==
    presetIndex * PresetIndexShift + spare * 2 + (IF sending THEN 1 ELSE 0)

PresetIndexOf(value) == (value \div PresetIndexShift) % PresetIndexModulus

EventsAreBeingSent(value) == value % 2 = 1

\* The value written whole, its transient bits with it.
KeepAllBits(value) == value

\* value & PersistedInCosaveMask (0b11111111111111111111000000000000)
MaskPersistedInCosave(value) == value - (value % PresetIndexShift)

\* A store of the whole word: the index with the other bits cleared.
OnlyPresetIndex(value, presetIndex) == (presetIndex % PresetIndexModulus) * PresetIndexShift

\* entry.second.presetIndex = presetIndex, the other bits kept
WithPresetIndex(value, presetIndex) ==
    (value % PresetIndexShift) + (presetIndex % PresetIndexModulus) * PresetIndexShift

\* entry.second.actorChangeEventsAreBeingSent = sending, the other bits kept
WithEventsBeingSent(value, sending) ==
    (value - (value % 2)) + (IF sending THEN 1 ELSE 0)

\* ------------------------------------------------------------------------
\* Bytes and alignment
\* ------------------------------------------------------------------------

Min(a, b) == IF a < b THEN a ELSE b

\* AlignUpTo(value, alignment), alignment a power of two
AlignUpTo(value, alignment) == ((value + alignment - 1) \div alignment) * alignment

IsAlignedTo(value, alignment) == value % alignment = 0

\* memcpy of a uint32_t into the buffer: little-endian on the target.
LE32(v) == << v % 256, (v \div 256) % 256, (v \div 65536) % 256, (v \div 16777216) % 256 >>

\* memcpy of four buffer bytes at byte offset `offset` into a uint32_t.
ReadLE32(buffer, offset) ==
    buffer[offset + 1] + 256 * buffer[offset + 2] + 65536 * buffer[offset + 3]
        + 16777216 * buffer[offset + 4]

\* memcpy(&buffer[offset], bytes, Len(bytes))
PutBytes(buffer, offset, bytes) ==
    [i \in 1..BufferSize |->
        IF i > offset /\ i <= offset + Len(bytes) THEN bytes[i - offset] ELSE buffer[i]]

\* The uninitialised Buffer of SaveState / LoadState, all bytes `fill`.
FreshBuffer(fill) == [i \in 1..BufferSize |-> fill]

\* ------------------------------------------------------------------------
\* The SKSE serialization interface
\* ------------------------------------------------------------------------

\* An open record being written: the bytes accepted so far, the length of
\* every WriteRecordData call made (failed ones included), and the number of
\* the call that fails (0: none fails).
OpenSink(failAt) == [data |-> << >>, calls |-> << >>, failAt |-> failAt]

WriteSucceeds(sink) == sink.failAt = 0 \/ Len(sink.calls) + 1 # sink.failAt

\* save->WriteRecordData(buffer, length): the sink after the call.
WriteRecordData(sink, buffer, length) ==
    [sink EXCEPT !.calls = Append(@, length),
                 !.data = IF WriteSucceeds(sink)
                          THEN @ \o [i \in 1..length |-> buffer[i]]
                          ELSE @]

\* load->ReadRecordData(buffer, BufferSize) over a record's remaining bytes:
\* the source hands over the next chunk, at most BufferSize bytes.
RECURSIVE ChunksOf(_)
ChunksOf(data) ==
    IF Len(data) = 0 THEN << >>
    ELSE LET n == Min(BufferSize, Len(data))
         IN  << SubSeq(data, 1, n) >> \o ChunksOf(SubSeq(data, n + 1, Len(data)))


\* ------------------------------------------------------------------------
\* The writers of SaveFileState.cpp
\* ------------------------------------------------------------------------

\* A writer's locals: the buffer, the offset into it, the open record, whether
\* no WriteRecordData call has failed, and whether every assert passed so far.
Writer(buffer, sink) ==
    [buffer |-> buffer, offset |-> 0, sink |-> sink, ok |-> TRUE, assertsHold |-> TRUE]

\* if (!save->WriteRecordData(buffer, length)) <fail>; offset = 0;
Flush(w, length) ==
    IF WriteSucceeds(w.sink)
    THEN [w EXCEPT !.sink = WriteRecordData(w.sink, w.buffer, length), !.offset = 0]
    ELSE [w EXCEPT !.sink = WriteRecordData(w.sink, w.buffer, length), !.ok = FALSE]

WithAssert(w, condition) == [w EXCEPT !.assertsHold = @ /\ condition]

\* The visitor of cvisit_while in WriteRecordDataForActorRegistryV0; the
\* writer's ok field is the visitor's return value.
VisitActorEntry(w, formID, value) ==
    LET withID == PutBytes(w.buffer, w.offset, LE32(formID))
        withState == PutBytes(withID, w.offset + 4, LE32(MaskPersistedInCosave(value)))
        w1 == WithAssert([w EXCEPT !.buffer = withState, !.offset = w.offset + 8],
                         w.offset + 8 <= BufferSize)
    IN  IF w1.offset = BufferSize THEN Flush(w1, w1.offset) ELSE w1

\* cvisit_while: visits the entries in the table's iteration order `order`
\* and stops at the first visit that returns false.
RECURSIVE VisitActorEntriesWhile(_, _, _)
VisitActorEntriesWhile(w, stateForActorMap, order) ==
    IF Len(order) = 0 \/ ~w.ok THEN w
    ELSE VisitActorEntriesWhile(
            VisitActorEntry(w, Head(order), stateForActorMap[Head(order)]),
            stateForActorMap, Tail(order))

\* What is left in the buffer after the visit is written out, whether or not
\* the visit succeeded; the result is that of both.
FlushRemainingActorData(w) ==
    IF w.offset # 0
    THEN LET w1 == Flush(w, w.offset)
         IN  [writer |-> w1, succeeded |-> w.ok /\ w1.ok]
    ELSE [writer |-> w, succeeded |-> w.ok]

\* WriteRecordDataForActorRegistryV0: the writer at return and the result.
WriteRecordDataForActorRegistryV0(sink, buffer, stateForActorMap, order) ==
    FlushRemainingActorData(
        VisitActorEntriesWhile(Writer(buffer, sink), stateForActorMap, order))

\* The steps of the `write` lambda. After goto failedToWriteRecordData
\* (w.ok is FALSE) nothing more is done, so every step leaves such a writer
\* as it is.

\* assert(IsAlignedTo(offset, 4))
AssertOffsetAligned(w) == WithAssert(w, w.ok => IsAlignedTo(w.offset, 4))

\* assert(offset <= limit)
AssertOffsetAtMost(w, limit) == WithAssert(w, w.ok => w.offset <= limit)

\* if (offset >= limit) { if (!save->WriteRecordData(buffer, offset)) goto
\* failedToWriteRecordData; offset = 0; }
FlushWhenAtLeast(w, limit) ==
    IF w.ok /\ w.offset >= limit THEN Flush(w, w.offset) ELSE w

\* std::memcpy(&buffer[offset], &field, 4); offset += 4;
Put32(w, field) ==
    IF w.ok
    THEN [w EXCEPT !.buffer = PutBytes(w.buffer, w.offset, LE32(field)),
                   !.offset = w.offset + 4]
    ELSE w

\* A copy of a name's bytes that does not go on after the flush of a full
\* buffer, for sensitivity runs.
WriteNameBytesOnce(w, name, nameOffset, remainingNameBytes) ==
    IF ~w.ok THEN w
    ELSE LET bytesToWrite == Min(remainingNameBytes, BufferSize - w.offset)
             w1 == [w EXCEPT !.buffer = PutBytes(w.buffer, w.offset,
                                                 SubSeq(name, nameOffset + 1,
                                                        nameOffset + bytesToWrite)),
                             !.offset = w.offset + bytesToWrite]
         IN  WithAssert(IF w1.offset = BufferSize THEN Flush(w1, BufferSize) ELSE w1,
                        remainingNameBytes - bytesToWrite = 0)

\* The for (;;) loop that copies a name's bytes, flushing every full buffer.
RECURSIVE WriteNameBytes(_, _, _, _)
WriteNameBytes(w, name, nameOffset, remainingNameBytes) ==
    IF ~w.ok THEN w
    ELSE LET bytesToWrite == Min(remainingNameBytes, BufferSize - w.offset)
             w1 == WithAssert(
                      [w EXCEPT !.buffer = PutBytes(w.buffer, w.offset,
                                                    SubSeq(name, nameOffset + 1,
                                                           nameOffset + bytesToWrite)),
                                !.offset = w.offset + bytesToWrite],
                      w.offset + bytesToWrite <= BufferSize)
         IN  IF w1.offset = BufferSize
             THEN WriteNameBytes(Flush(w1, BufferSize), name, nameOffset + bytesToWrite,
                                 remainingNameBytes - bytesToWrite)
             ELSE WithAssert(w1, remainingNameBytes - bytesToWrite = 0)

\* The flush before an entry, the entry's nameLength and its state.
PutEntryHead(w, name, index) ==
    Put32(Put32(AssertOffsetAtMost(FlushWhenAtLeast(AssertOffsetAligned(w),
                                                    BufferSize - 4 - 4),
                                   BufferSize - 4 - 4),
                Len(name)),
          index)

\* A writer that leaves the offset after a name as it is, for sensitivity runs.
KeepOffset(w) == w

\* offset = AlignUpTo(offset, alignof(PresetNameLength))
AlignOffset(w) == IF w.ok THEN [w EXCEPT !.offset = AlignUpTo(@, 4)] ELSE w

\* One iteration of the loop over indexByNameMap.
WritePresetNameEntry(w, name, index) ==
    AlignOffset(WriteNameBytes(PutEntryHead(w, name, index), name, 0, Len(name)))

RECURSIVE WritePresetNameEntries(_, _, _)
WritePresetNameEntries(w, indexByNameMap, order) ==
    IF Len(order) = 0 \/ ~w.ok THEN w
    ELSE WritePresetNameEntries(
            WritePresetNameEntry(w, Head(order), indexByNameMap[Head(order)]),
            indexByNameMap, Tail(order))

\* The flush before the header and the header.
PutHeader(w, nextPresetIndex) ==
    Put32(FlushWhenAtLeast(AssertOffsetAligned(w), BufferSize - 4), nextPresetIndex)

\* The flush before the terminating length and the terminating length of 0.
PutTerminatingLength(w) ==
    Put32(FlushWhenAtLeast(AssertOffsetAtMost(w, BufferSize), BufferSize - 4), 0)

\* The `write` lambda: header, entries, terminating length of 0.
WritePresetNameSection(w, indexByNameMap, order, nextPresetIndex) ==
    PutTerminatingLength(
        WritePresetNameEntries(PutHeader(w, nextPresetIndex), indexByNameMap, order))

\* if (!save->WriteRecordData(buffer, offset)) return false; return true;
FlushRemainingPresetNameData(w) ==
    IF w.ok
    THEN LET w1 == Flush(w, w.offset)
         IN  [writer |-> w1, succeeded |-> w1.ok]
    ELSE [writer |-> w, succeeded |-> FALSE]

\* WriteRecordDataForPresetNameIndexMapV0: the female section, the male
\* section, then the flush of what remains.
WriteRecordDataForPresetNameIndexMapV0(sink, buffer, container, femaleOrder, maleOrder) ==
    FlushRemainingPresetNameData(
        WritePresetNameSection(
            WritePresetNameSection(Writer(buffer, sink),
                                   container.femalePresetIndexByName, femaleOrder,
                                   container.nextFemalePresetIndex),
            container.malePresetIndexByName, maleOrder,
            container.nextMalePresetIndex))

\* ------------------------------------------------------------------------
\* The readers of SaveFileState.cpp
\* ------------------------------------------------------------------------

\* map.insert_or_assign(key, value) / map[key] = value
Assign(map, key, value) ==
    [k \in DOMAIN map \cup {key} |-> IF k = key THEN value ELSE map[k]]

\* A reader's locals: the chunks the source has yet to hand over, the buffer,
\* the offset into it and the count of unconsumed bytes; ok is the result of
\* the last getMoreBytes or bounds check. History: the size of the chunk in
\* the buffer, whether every read so far lay within the chunk and left
\* remainingBytes at 0 or above, and the largest number of elements a
\* reserve() was called with.
Reader(buffer, chunks) ==
    [chunks |-> chunks, buffer |-> buffer, offset |-> 0, remainingBytes |-> 0, ok |-> TRUE, chunkSize |-> 0, inBounds |-> TRUE, reserved |-> 0]

\* remainingBytes = load->ReadRecordData(buffer, BufferSize)
ReadRecordData(r) ==
    IF Len(r.chunks) = 0 THEN [r EXCEPT !.remainingBytes = 0, !.chunkSize = 0]
    ELSE [r EXCEPT !.buffer = PutBytes(r.buffer, 0, Head(r.chunks)),
                   !.remainingBytes = Len(Head(r.chunks)),
                   !.chunkSize = Len(Head(r.chunks)),
                   !.chunks = Tail(r.chunks)]

\* The refill at the top of the loop of ReadRecordDataForActorRegistryV0 and
\* the entries that follow: [ok, map].
RECURSIVE ReadActorEntries(_, _)
ReadActorEntries(r, stateForActorMap) ==
    LET r1 == IF r.remainingBytes = 0 THEN [ReadRecordData(r) EXCEPT !.offset = 0] ELSE r
    IN  IF r.remainingBytes = 0 /\ r1.remainingBytes = 0
        THEN [ok |-> TRUE, map |-> stateForActorMap, inBounds |-> r1.inBounds]
        ELSE IF r.remainingBytes = 0 /\ ~IsAlignedTo(r1.remainingBytes, 8)
        THEN [ok |-> FALSE, map |-> stateForActorMap, inBounds |-> r1.inBounds]
        ELSE LET formID == ReadLE32(r1.buffer, r1.offset)
                 actorState == MaskPersistedInCosave(ReadLE32(r1.buffer, r1.offset + 4))
             IN  ReadActorEntries(
                    [r1 EXCEPT !.offset = r1.offset + 8,
                               !.remainingBytes = r1.remainingBytes - 8,
                               !.inBounds = @ /\ 8 <= r1.remainingBytes /\ r1.offset + 8 <= r1.chunkSize],
                    Assign(stateForActorMap, formID, actorState))

ReadRecordDataForActorRegistryV0(buffer, chunks, stateForActorMap) ==
    ReadActorEntries(Reader(buffer, chunks), stateForActorMap)

\* The getMoreBytes lambda.
GetMoreBytes(r) ==
    IF r.remainingBytes # 0 THEN [r EXCEPT !.ok = TRUE]
    ELSE LET r1 == ReadRecordData(r)
         IN  IF r1.remainingBytes = 0 THEN [r1 EXCEPT !.ok = FALSE]
             ELSE IF ~IsAlignedTo(r1.remainingBytes, 4) THEN [r1 EXCEPT !.ok = FALSE]
             ELSE [r1 EXCEPT !.offset = 0, !.ok = TRUE]

\* if (!getMoreBytes()) goto prematurelyTerminated;
\* if (remainingBytes < size) goto prematurelyTerminated;
GetField(r, size) ==
    LET r1 == GetMoreBytes(r)
    IN  IF r1.ok /\ r1.remainingBytes < size THEN [r1 EXCEPT !.ok = FALSE] ELSE r1

\* offset += size; remainingBytes -= size; after the bytes were read.
Consume(r, size) ==
    [r EXCEPT !.offset = r.offset + size, !.remainingBytes = r.remainingBytes - size, !.inBounds = @ /\ size <= r.remainingBytes /\ r.offset + size <= r.chunkSize]

\* indexByNameMap.reserve(count)
Reserve(r, count) == [r EXCEPT !.reserved = IF count > @ THEN count ELSE @]

\* The inner for (;;) loop that collects a name's bytes: [r, name].
RECURSIVE ReadNameBytes(_, _, _)
ReadNameBytes(r, presetName, remainingNameBytes) ==
    LET bytesToRead == Min(remainingNameBytes, r.remainingBytes)
        remaining == remainingNameBytes - bytesToRead
        name == presetName \o [i \in 1..bytesToRead |-> r.buffer[r.offset + i]]
        r1 == Consume(r, bytesToRead)
    IN  IF remaining = 0 THEN [r |-> r1, name |-> name]
        ELSE LET r2 == GetMoreBytes(r1)
             IN  IF r2.ok THEN ReadNameBytes(r2, name, remaining)
                 ELSE [r |-> r2, name |-> name]

\* The loop over the entries of one section, in its steps: [r, ok, map].
RECURSIVE ReadPresetNameEntries(_, _)

\* The name's bytes are read: the padding is skipped, the entry is stored.
StorePresetNameEntry(n, presetIndex, indexByNameMap) ==
    IF ~n.r.ok THEN [r |-> n.r, ok |-> FALSE, map |-> indexByNameMap]
    ELSE ReadPresetNameEntries(
            Consume(n.r, AlignUpTo(n.r.offset, 4) - n.r.offset),
            Assign(indexByNameMap, n.name, presetIndex))

\* The entry's state is in reach (or not): the state, then the name.
ReadPresetNameState(r, length, indexByNameMap) ==
    IF ~r.ok THEN [r |-> r, ok |-> FALSE, map |-> indexByNameMap]
    ELSE StorePresetNameEntry(ReadNameBytes(Consume(r, 4), << >>, length),
                              ReadLE32(r.buffer, r.offset), indexByNameMap)

\* The entry's length is in reach (or not): a length of 0 ends the section.
ReadPresetNameLength(r, indexByNameMap) ==
    IF ~r.ok THEN [r |-> r, ok |-> FALSE, map |-> indexByNameMap]
    ELSE IF ReadLE32(r.buffer, r.offset) = 0
    THEN [r |-> Consume(r, 4), ok |-> TRUE, map |-> indexByNameMap]
    ELSE ReadPresetNameState(GetField(Consume(r, 4), 4), ReadLE32(r.buffer, r.offset),
                             indexByNameMap)

ReadPresetNameEntries(r, indexByNameMap) ==
    ReadPresetNameLength(GetField(r, 4), indexByNameMap)

\* The result of a section's entries with the counter its header gave.
WithNextPresetIndex(entries, nextPresetIndex) ==
    [r |-> entries.r, ok |-> entries.ok, map |-> entries.map, next |-> nextPresetIndex]

\* The header is in reach (or not): the counter is stored as soon as the
\* header is read, the names as they are read.
ReadPresetNameHeader(r, indexByNameMap, nextPresetIndex) ==
    IF ~r.ok
    THEN [r |-> r, ok |-> FALSE, map |-> indexByNameMap, next |-> nextPresetIndex]
    ELSE WithNextPresetIndex(ReadPresetNameEntries(Reserve(Consume(r, 4), ReadLE32(r.buffer, r.offset)),
                                                   indexByNameMap),
                             ReadLE32(r.buffer, r.offset))

\* The `read` lambda: [r, ok, map, next].
ReadPresetNameSection(r, indexByNameMap, nextPresetIndex) ==
    ReadPresetNameHeader(GetField(r, 4), indexByNameMap, nextPresetIndex)

\* The male section after the female section `f`, read into `container`.
ReadMalePresetNameSection(f, container) ==
    IF ~f.ok THEN [ok |-> FALSE, container |-> container, trailing |-> 0, inBounds |-> f.r.inBounds, reserved |-> f.r.reserved]
    ELSE LET m == ReadPresetNameSection(f.r, container.malePresetIndexByName,
                                        container.nextMalePresetIndex)
         IN  [ok |-> m.ok,
              container |-> [container EXCEPT !.malePresetIndexByName = m.map,
                                              !.nextMalePresetIndex = m.next],
              trailing |-> IF m.ok THEN m.r.remainingBytes ELSE 0,
              inBounds |-> m.r.inBounds, reserved |-> m.r.reserved]

\* What the female section `f` has stored in the container.
WithFemalePresetNames(f, container) ==
    [container EXCEPT !.femalePresetIndexByName = f.map,
                      !.nextFemalePresetIndex = f.next]

\* The female section's result with the container it has been read into.
ReadFemalePresetNameSection(r, container) ==
    LET f == ReadPresetNameSection(r, container.femalePresetIndexByName,
                                   container.nextFemalePresetIndex)
    IN  [section |-> f, container |-> WithFemalePresetNames(f, container)]

\* [section, container] of the female section handed on to the male one.
ReadBothPresetNameSections(female) ==
    ReadMalePresetNameSection(female.section, female.container)

\* ReadRecordDataForPresetNameIndexMapV0: [ok, container, trailing].
ReadRecordDataForPresetNameIndexMapV0(buffer, chunks, container) ==
    ReadBothPresetNameSections(
        ReadFemalePresetNameSection(Reader(buffer, chunks), container))


\* ------------------------------------------------------------------------
\* State
\* ------------------------------------------------------------------------

VARIABLES
    \* PresetManager::PresetContainer: femalePresetIndexByName,
    \* malePresetIndexByName, nextFemalePresetIndex, nextMalePresetIndex,
    \* allFemalePresetsByIndex, allMalePresetsByIndex.
    presetContainer,
    \* ActorTracker::Registry::stateForActor: form-ID -> packed ActorState.
    stateForActor,
    \* BackwardsCompatibility::State's flag; it lives in memory only.
    haveMigratedStorageUtilPresetAssignments,
    \* The records of the cosave on disk: a sequence of [type, version, data].
    cosave,
    \* Where the host is in SKSE's callback order: "menu", "reverted" (the
    \* revert callback ran), "loaded" (the load callback ran), "running".
    lifecycle,
    \* History: the tables that were in memory when the cosave was written.
    atSave,
    \* History: how many times the process has been started again.
    restarts,
    \* History: how many times the game has been saved.
    saves,
    \* History: whether the last post-load fix-up ran the migration, and the
    \* legacy entries it processed.
    migration,
    \* Body::OBody::actorChangeEventListeners, in registration order.
    actorChangeEventListeners,
    \* Body::OBody::actorChangeListenerLock, a std::recursive_mutex:
    \* [owner, count], owner "none" when free.
    actorChangeListenerLock,
    \* Per thread, the activations of SendActorChangeEvent, innermost last.
    callStack,
    \* History: how many calls of the plugin API and the script API threads
    \* have made from outside a listener, and how many listeners have made.
    apiCalls,
    listenerCalls,
    \* History: what the last SaveState did to each record: whether it was
    \* opened, the lengths of the WriteRecordData calls made for it, the
    \* number of the call that failed (0: none) and the writer's result.
    saveLog,
    \* History: the messages the last LoadState logged, in order.
    loadLog,
    \* Per thread, where it is in the index allocation of
    \* MigrateStorageUtilPresetAssignmentsOverToSKSECosave and its locals;
    \* history: the container before the first allocation began.
    allocation,
    \* Body::OBody::readyForPluginAPIUsage.
    readyForPluginAPIUsage,
    \* Body::OBody::readinessEventListeners, in registration order.
    readinessEventListeners,
    \* Where the plugin is between the readiness transitions: "Unready",
    \* "BecomingReady", "Ready", "BecomingUnready".
    readinessPhase,
    \* The call of PluginInterfaceMessageHandler that is running or was the
    \* last to return: its position, the request, and as history whether the
    \* plugin was ready when it began, whether a readiness transition ran
    \* during it, and the events its listener has received during it.
    registrationCall,
    \* The fan-out of a readiness event that is running under
    \* readinessListenerLock: the event ("" when none runs), the position in
    \* readinessEventListeners of the listener to be called next; history:
    \* the list of listeners when the plugin last began to become ready,
    \* and per listener the events it has received since then and whether
    \* it was called with the flag set.
    readinessFanOut,
    \* History: the last lookup of an actor's preset or call of the plugin
    \* API's AssignPresetToActor: which call it was, what it was asked, what
    \* it returned and the entry of the actor it found.
    lookup,
    \* OBody::readinessListenerLock, where the threads that take it are told
    \* apart: the thread that owns it and how often it has taken it.
    readinessListenerLock

tableVars == << presetContainer, stateForActor, haveMigratedStorageUtilPresetAssignments,
                cosave, lifecycle, atSave, restarts, saves, migration, saveLog, loadLog,
                allocation, readyForPluginAPIUsage, readinessEventListeners, readinessPhase,
                registrationCall, readinessFanOut, lookup, readinessListenerLock >>

tableVarsButRegistry == << presetContainer, haveMigratedStorageUtilPresetAssignments,
                           cosave, lifecycle, atSave, restarts, saves, migration, saveLog,
                           loadLog, allocation, readyForPluginAPIUsage,
                           readinessEventListeners, readinessPhase, registrationCall, readinessFanOut,
                           readinessListenerLock >>

readinessVars == << readyForPluginAPIUsage, readinessEventListeners, readinessPhase, registrationCall, readinessFanOut, readinessListenerLock >>

concurrentVars == << allocation, readyForPluginAPIUsage, readinessEventListeners, readinessPhase, registrationCall, readinessFanOut, lookup, readinessListenerLock >>

dispatchVars == << actorChangeEventListeners, actorChangeListenerLock, callStack, apiCalls,
                   listenerCalls >>

vars == << presetContainer, stateForActor, haveMigratedStorageUtilPresetAssignments,
           cosave, lifecycle, atSave, restarts, saves, migration,
           actorChangeEventListeners, actorChangeListenerLock, callStack, apiCalls,
           listenerCalls, saveLog, loadLog, allocation, readyForPluginAPIUsage,
           readinessEventListeners, readinessPhase, registrationCall, readinessFanOut, lookup,
           readinessListenerLock >>

\* ------------------------------------------------------------------------
\* Inputs of the model
\* ------------------------------------------------------------------------

EmptyName == << >>

\* Preset names found as values in the legacy StorageUtil store.
LegacyPresetNames == { EmptyName, << 65 >>, << 66 >> }

\* Actors that RE::TESForm::LookupByID finds, by sex, and a form-ID it does not.
FemaleActors == { 4660 }
MaleActors == { 4661 }
LoadedActors == FemaleActors \cup MaleActors
LegacyFormIDs == LoadedActors \cup { 4662 }

\* Body::OBody::IsFemale
IsFemale(formID) == formID \in FemaleActors

\* The `obody_<form-ID>_preset` keys of StorageUtil with their values; a
\* value whose data() is a null pointer has valueIsNull.
LegacyEntries ==
    { entry \in [formID : LegacyFormIDs, value : LegacyPresetNames, valueIsNull : BOOLEAN] :
        entry.valueIsNull => entry.value = EmptyName }

RECURSIVE SeqsUpTo(_, _)
SeqsUpTo(S, n) ==
    IF n = 0 THEN { << >> }
    ELSE LET shorter == SeqsUpTo(S, n - 1)
         IN  shorter \cup { Append(q, x) : q \in { p \in shorter : Len(p) = n - 1 }, x \in S }

\* The contents the legacy store may have when a migration runs.
LegacyStores == SeqsUpTo(LegacyEntries, MaxLegacyEntries)

\* The iteration orders a hash table with the keys S may have.
RECURSIVE Orders(_)
Orders(S) ==
    IF S = {} THEN { << >> }
    ELSE UNION { { << x >> \o p : p \in Orders(S \ {x}) } : x \in S }

\* The threads that call into the plugin.
Threads == { "t1", "t2" }

\* What an uninitialised buffer may hold.
GarbageBytes == { 0, 204 }

\* ------------------------------------------------------------------------
\* The preset-identity table
\* ------------------------------------------------------------------------

EmptyContainer ==
    [femalePresetIndexByName |-> << >>, malePresetIndexByName |-> << >>,
     nextFemalePresetIndex |-> 0, nextMalePresetIndex |-> 0,
     allFemalePresetsByIndex |-> << >>, allMalePresetsByIndex |-> << >>]

\* std::vector::resize(n, fill)
Resize(vector, n, fill) ==
    [i \in 1..n |-> IF i <= Len(vector) THEN vector[i] ELSE fill]

IndexByName(container, isFemale) ==
    IF isFemale THEN container.femalePresetIndexByName ELSE container.malePresetIndexByName

NextPresetIndex(container, isFemale) ==
    IF isFemale THEN container.nextFemalePresetIndex ELSE container.nextMalePresetIndex

PresetsByIndex(container, isFemale) ==
    IF isFemale THEN container.allFemalePresetsByIndex ELSE container.allMalePresetsByIndex

\* A faulty variant of the allocation, for sensitivity runs: it takes a new
\* index whether or not the name is known.
EmplacePresetNameAnew(container, isFemale, presetName) ==
    LET map == IndexByName(container, isFemale)
        next == NextPresetIndex(container, isFemale)
        dense == Resize(PresetsByIndex(container, isFemale), next + 1, AbsentPreset)
    IN  IF isFemale
        THEN [container EXCEPT !.femalePresetIndexByName = Assign(map, presetName, next),
                               !.nextFemalePresetIndex = next + 1,
                               !.allFemalePresetsByIndex = dense]
        ELSE [container EXCEPT !.malePresetIndexByName = Assign(map, presetName, next),
                               !.nextMalePresetIndex = next + 1,
                               !.allMalePresetsByIndex = dense]

\* presetIndexMap.emplace(presetName, nextPresetIndex.value) and, when the
\* name was inserted, ++nextPresetIndex.value and the resize of the dense
\* table with the absent entry.
EmplacePresetName(container, isFemale, presetName) ==
    LET map == IndexByName(container, isFemale)
        next == NextPresetIndex(container, isFemale)
        dense == Resize(PresetsByIndex(container, isFemale), next + 1, AbsentPreset)
    IN  IF presetName \in DOMAIN map THEN container
        ELSE IF isFemale
        THEN [container EXCEPT !.femalePresetIndexByName = Assign(map, presetName, next),
                               !.nextFemalePresetIndex = next + 1,
                               !.allFemalePresetsByIndex = dense]
        ELSE [container EXCEPT !.malePresetIndexByName = Assign(map, presetName, next),
                               !.nextMalePresetIndex = next + 1,
                               !.allMalePresetsByIndex = dense]

\* A variant of the index assignment that takes the other sex in whether or
\* not the name was new for the actor's sex, for sensitivity runs.
AssignLegacyPresetIndexForBothSexes(container, isFemale, presetName) ==
    EmplacePresetName(EmplacePresetName(container, isFemale, presetName), ~isFemale, presetName)

\* The index assignment of one legacy entry: the actor's sex first and, when
\* the name was new there, the other sex as well.
AssignLegacyPresetIndex(container, isFemale, presetName) ==
    LET own == EmplacePresetName(container, isFemale, presetName)
    IN  IF presetName \in DOMAIN IndexByName(container, isFemale) THEN own
        ELSE EmplacePresetName(own, ~isFemale, presetName)

\* A migration that stores the legacy assignment over an entry the actor
\* has, for sensitivity runs.
InsertOrAssignActorState(stateForActorMap, formID, actorState) ==
    Assign(stateForActorMap, formID, actorState)

\* registry.stateForActor.emplace(formID, actorState): no overwrite.
EmplaceActorState(stateForActorMap, formID, actorState) ==
    IF formID \in DOMAIN stateForActorMap THEN stateForActorMap
    ELSE Assign(stateForActorMap, formID, actorState)

\* One iteration of the loop of MigrateStorageUtilPresetAssignmentsOverToSKSECosave
\* over a key of the form obody_<form-ID>_preset; tables is [container, registry].
MigrateLegacyEntry(tables, entry) ==
    IF entry.valueIsNull THEN tables
    ELSE IF entry.formID \notin LoadedActors THEN tables
    ELSE LET isFemale == IsFemale(entry.formID)
             container == AssignLegacyPresetIndex(tables.container, isFemale, entry.value)
             assignedIndex == IndexByName(container, isFemale)[entry.value]
         IN  [container |-> container,
              registry |-> EmplaceActorState(tables.registry, entry.formID,
                                             WithPresetIndex(0, assignedIndex + 1))]

RECURSIVE MigrateStorageUtilPresetAssignmentsOverToSKSECosave(_, _)
MigrateStorageUtilPresetAssignmentsOverToSKSECosave(tables, entries) ==
    IF Len(entries) = 0 THEN tables
    ELSE MigrateStorageUtilPresetAssignmentsOverToSKSECosave(
            MigrateLegacyEntry(tables, Head(entries)), Tail(entries))


\* ------------------------------------------------------------------------
\* Save, load and revert
\* ------------------------------------------------------------------------

\* The host's side of a save: OpenRecord succeeds and no WriteRecordData
\* call fails (failAt 0).
OpenRecordOutcomes == { TRUE }
SinkFailures == { 0 }

\* What SaveState saw of one record: OpenRecord failed, so its writer was
\* not called, or the calls the writer made, what it returned and whether
\* every assert it came to passed.
NotOpened == [opened |-> FALSE, calls |-> << >>, failAt |-> 0, succeeded |-> FALSE, assertsHold |-> TRUE]
WriterLog(written) == [opened |-> TRUE, calls |-> written.writer.sink.calls, failAt |-> written.writer.sink.failAt, succeeded |-> written.succeeded, assertsHold |-> written.writer.assertsHold]

NothingSaved == [actorRegistry |-> NotOpened, presetNameIndexMap |-> NotOpened]

\* SaveState: the records left in the cosave. Both writers work in the one
\* buffer of SaveState, so the second starts on what the first left in it.
\* A record that could not be opened is absent; one whose writer failed
\* holds what the sink had accepted.
SaveStateRecords(buffer, registry, registryOrder, container, femaleOrder, maleOrder, openActorRegistry, actorRegistryFailAt, openPresetNameIndexMap, presetNameIndexMapFailAt) ==
    LET a == WriteRecordDataForActorRegistryV0(OpenSink(actorRegistryFailAt), buffer,
                                               registry, registryOrder)
        bufferAfter == IF openActorRegistry THEN a.writer.buffer ELSE buffer
        p == WriteRecordDataForPresetNameIndexMapV0(OpenSink(presetNameIndexMapFailAt),
                                                    bufferAfter, container,
                                                    femaleOrder, maleOrder)
        actorRecords ==
            IF openActorRegistry
            THEN << [type |-> ActorRegistryTypeID, version |-> 0, data |-> a.writer.sink.data] >>
            ELSE << >>
        presetRecords ==
            IF openPresetNameIndexMap
            THEN << [type |-> PresetNameIndexMapTypeID, version |-> 0,
                     data |-> p.writer.sink.data] >>
            ELSE << >>
    IN  [records |-> actorRecords \o presetRecords,
         complete |-> openActorRegistry /\ a.succeeded /\ openPresetNameIndexMap /\ p.succeeded,
         assertsHold |-> a.writer.assertsHold /\ p.writer.assertsHold,
         log |-> [actorRegistry |-> IF openActorRegistry THEN WriterLog(a) ELSE NotOpened,
                  presetNameIndexMap |-> IF openPresetNameIndexMap THEN WriterLog(p) ELSE NotOpened]]

\* A loader that hands a record of any version to the version-0 reader.
AnyRecordVersion(version) == TRUE

\* switch (version) { case 0: ... } of either known record type.
RecordVersionIsKnown(version) == version = 0

\* The locals and the tables of LoadState before the first record.
LoadStateLocals(container, registry) ==
    [container |-> container, registry |-> registry, actorRegistryCount |-> 0, presetNameMapCount |-> 0, log |-> << >>]

\* case ActorRegistryTypeID, version 0: the first such record is read into
\* the registry, a later one is only counted.
LoadActorRegistryRecord(buffer, record, tables) ==
    IF tables.actorRegistryCount = 0
    THEN LET read == ReadRecordDataForActorRegistryV0(buffer, ChunksOf(record.data), tables.registry)
         IN  [tables EXCEPT !.actorRegistryCount = 1,
                            !.registry = read.map,
                            !.log = IF read.ok THEN @ ELSE Append(@, "Failed to load the actor-registry!")]
    ELSE [tables EXCEPT !.actorRegistryCount = @ + 1]

\* case PresetNameIndexMapTypeID, version 0, likewise.
LoadPresetNameIndexMapRecord(buffer, record, tables) ==
    IF tables.presetNameMapCount = 0
    THEN LET read == ReadRecordDataForPresetNameIndexMapV0(buffer, ChunksOf(record.data), tables.container)
         IN  [tables EXCEPT !.presetNameMapCount = 1,
                            !.container = read.container,
                            !.log = IF read.ok THEN @ ELSE Append(@, "Failed to load the preset-name-index-map!")]
    ELSE [tables EXCEPT !.presetNameMapCount = @ + 1]

\* The body of the while loop of LoadState for one record.
LoadStateRecord(buffer, record, tables) ==
    IF record.type = ActorRegistryTypeID
    THEN IF RecordVersionIsKnown(record.version)
         THEN LoadActorRegistryRecord(buffer, record, tables)
         ELSE [tables EXCEPT !.log = Append(@, "An actor-registry record of an unknown version")]
    ELSE IF record.type = PresetNameIndexMapTypeID
    THEN IF RecordVersionIsKnown(record.version)
         THEN LoadPresetNameIndexMapRecord(buffer, record, tables)
         ELSE [tables EXCEPT !.log = Append(@, "A preset-name-index-map record of an unknown version")]
    ELSE [tables EXCEPT !.log = Append(@, "A record of unknown type")]

\* A loader that gives up the whole load at the first record it logs a
\* message for.
RECURSIVE LoadStateRecordsUntilFailure(_, _, _)
LoadStateRecordsUntilFailure(buffer, records, tables) ==
    IF Len(records) = 0 \/ tables.log # << >> THEN tables
    ELSE LoadStateRecordsUntilFailure(buffer, Tail(records), LoadStateRecord(buffer, Head(records), tables))

\* while (load->GetNextRecordInfo(type, version, length)) { ... }
RECURSIVE LoadStateRecords(_, _, _)
LoadStateRecords(buffer, records, tables) ==
    IF Len(records) = 0 THEN tables
    ELSE LoadStateRecords(buffer, Tail(records), LoadStateRecord(buffer, Head(records), tables))

\* if (presetNameMapCount > 1) logger::error(...)
WarnOfMultipleRecords(tables) ==
    IF tables.presetNameMapCount > 1
    THEN [tables EXCEPT !.log = Append(@, "Multiple preset-name-index-map records")]
    ELSE tables

\* LoadState: the tables and the log after all records of the cosave.
LoadStateTables(buffer, records, container, registry) ==
    WarnOfMultipleRecords(LoadStateRecords(buffer, records, LoadStateLocals(container, registry)))

\* The order in which the host delivers its lifecycle signals: the revert
\* callback precedes a load and a new game; the load callback is followed by
\* the post-load fix-up; saves happen in a running game.
HostCallbackOrder ==
    { << "menu", "RevertState" >>, << "running", "RevertState" >>,
      << "reverted", "LoadState" >>, << "reverted", "SetStateUponStartOfNewGame" >>,
      << "loaded", "FixupAfterLoadingGame" >>, << "running", "SaveState" >> }

NoMigration == [ran |-> FALSE, entries |-> << >>]

\* No request for a plugin interface has been made.
NoRegistrationCall ==
    [pc |-> "none", listener |-> "", valid |-> FALSE, wasReady |-> FALSE, changed |-> FALSE, received |-> << >>, calls |-> 0, dataLenSuffices |-> FALSE, version |-> 0, pluginInterface |-> FALSE]

\* request->readinessEventListener: a null pointer or a listener.
NoReadinessListener == ""
ReadinessListeners == { "R1", "R2" }

\* No fan-out of a readiness event runs, and no listener has been called.
NoReadinessFanOut ==
    [event |-> "", next |-> 0, atBegin |-> << >>, received |-> [listener \in ReadinessListeners |-> << >>], sawReady |-> [listener \in ReadinessListeners |-> FALSE]]

\* The plugin after construction: not ready, no readiness listener.
readinessIdle ==
    /\ readyForPluginAPIUsage = FALSE
    /\ readinessEventListeners = << >>
    /\ readinessPhase = "Unready"
    /\ registrationCall = NoRegistrationCall
    /\ readinessFanOut = NoReadinessFanOut
    /\ readinessListenerLock = [owner |-> "none", count |-> 0]

\* No lookup has been made.
NoLookup ==
    [op |-> "none", call |-> 0, formID |-> 0, isFemale |-> FALSE, payload |-> [unassign |-> FALSE, assignedIndex |-> 0], result |-> 0, before |-> << >>]

\* What a call finds of an actor in the registry: its entry, if it has one.
EntryOf(registry, formID) == [actor \in DOMAIN registry \cap { formID } |-> registry[actor]]

\* A thread that is not allocating, and the state in which none is.
NotAllocating == [pc |-> "idle", presetName |-> << >>, isFemale |-> FALSE, otherSex |-> FALSE, inserted |-> FALSE, loaded |-> 0, calls |-> 0]
NoAllocation == [thread |-> [t \in Threads |-> NotAllocating], before |-> EmptyContainer]

tablesInit ==
    /\ presetContainer = EmptyContainer
    /\ stateForActor = << >>
    /\ haveMigratedStorageUtilPresetAssignments = FALSE
    /\ lifecycle = "menu"

dispatchIdle ==
    /\ actorChangeEventListeners = << >>
    /\ actorChangeListenerLock = [owner |-> "none", count |-> 0]
    /\ callStack = [thread \in Threads |-> << >>]
    /\ apiCalls = 0
    /\ listenerCalls = 0

Init ==
    /\ tablesInit
    /\ cosave = << >>
    /\ atSave = [container |-> EmptyContainer, registry |-> << >>, complete |-> FALSE]
    /\ saveLog = NothingSaved
    /\ loadLog = << >>
    /\ allocation = NoAllocation
    /\ readinessIdle
    /\ lookup = NoLookup
    /\ restarts = 0
    /\ saves = 0
    /\ migration = NoMigration
    /\ dispatchIdle

\* SaveState on a host whose OpenRecord results are among openOutcomes and
\* whose failing WriteRecordData call is among sinkFailures.
SaveStateOn(openOutcomes, sinkFailures) ==
    /\ << lifecycle, "SaveState" >> \in HostCallbackOrder
    /\ saves < MaxSaves
    /\ saves' = saves + 1
    /\ \E fill \in GarbageBytes,
          registryOrder \in Orders(DOMAIN stateForActor),
          femaleOrder \in Orders(DOMAIN presetContainer.femalePresetIndexByName),
          maleOrder \in Orders(DOMAIN presetContainer.malePresetIndexByName),
          openActorRegistry \in openOutcomes,
          openPresetNameIndexMap \in openOutcomes,
          actorRegistryFailAt \in sinkFailures, presetNameIndexMapFailAt \in sinkFailures :
            LET saved == SaveStateRecords(FreshBuffer(fill), stateForActor, registryOrder,
                                          presetContainer, femaleOrder, maleOrder,
                                          openActorRegistry, actorRegistryFailAt,
                                          openPresetNameIndexMap, presetNameIndexMapFailAt)
            IN  /\ cosave' = saved.records
                /\ atSave' = [container |-> presetContainer, registry |-> stateForActor,
                              complete |-> saved.complete]
                /\ saveLog' = saved.log
    /\ UNCHANGED << presetContainer, stateForActor, haveMigratedStorageUtilPresetAssignments,
                    lifecycle, restarts, migration, loadLog >>
    /\ UNCHANGED dispatchVars
    /\ UNCHANGED concurrentVars

SaveState == SaveStateOn(OpenRecordOutcomes, SinkFailures)

\* A variant of RevertState that clears the tables and keeps the counters,
\* for sensitivity runs.
RevertStateKeepingCounters ==
    /\ << lifecycle, "RevertState" >> \in HostCallbackOrder
    /\ stateForActor' = << >>
    /\ presetContainer' = [presetContainer EXCEPT !.femalePresetIndexByName = << >>,
                                                  !.malePresetIndexByName = << >>]
    /\ lifecycle' = "reverted"
    /\ UNCHANGED << haveMigratedStorageUtilPresetAssignments, cosave, atSave, restarts, saves, migration >>
    /\ UNCHANGED << saveLog, loadLog >>
    /\ UNCHANGED dispatchVars
    /\ UNCHANGED concurrentVars

RevertState ==
    /\ << lifecycle, "RevertState" >> \in HostCallbackOrder
    /\ stateForActor' = << >>
    /\ presetContainer' = [presetContainer EXCEPT !.femalePresetIndexByName = << >>,
                                                  !.malePresetIndexByName = << >>,
                                                  !.nextFemalePresetIndex = 0,
                                                  !.nextMalePresetIndex = 0]
    /\ lifecycle' = "reverted"
    /\ UNCHANGED << haveMigratedStorageUtilPresetAssignments, cosave, atSave, restarts, saves, migration >>
    /\ UNCHANGED << saveLog, loadLog >>
    /\ UNCHANGED dispatchVars
    /\ UNCHANGED concurrentVars

LoadState ==
    /\ << lifecycle, "LoadState" >> \in HostCallbackOrder
    /\ \E fill \in GarbageBytes :
         LET loaded == LoadStateTables(FreshBuffer(fill), cosave, presetContainer, stateForActor)
         IN  /\ presetContainer' = loaded.container
             /\ stateForActor' = loaded.registry
             /\ loadLog' = loaded.log
    /\ lifecycle' = "loaded"
    /\ UNCHANGED << haveMigratedStorageUtilPresetAssignments, cosave, atSave, restarts, saves, migration, saveLog >>
    /\ UNCHANGED dispatchVars
    /\ UNCHANGED concurrentVars

SetStateUponStartOfNewGame ==
    /\ << lifecycle, "SetStateUponStartOfNewGame" >> \in HostCallbackOrder
    /\ haveMigratedStorageUtilPresetAssignments' = TRUE
    /\ lifecycle' = "running"
    /\ UNCHANGED << presetContainer, stateForActor, cosave, atSave, restarts, saves,
                    migration >>
    /\ UNCHANGED << saveLog, loadLog >>
    /\ UNCHANGED dispatchVars
    /\ UNCHANGED concurrentVars

\* FixupAfterLoadingGame: foundStorageUtil is the result of
\* FindStorageUtilFunctions, entries the content of the legacy store.
FixupAfterLoadingGame ==
    /\ << lifecycle, "FixupAfterLoadingGame" >> \in HostCallbackOrder
    /\ IF haveMigratedStorageUtilPresetAssignments
       THEN /\ migration' = NoMigration
            /\ UNCHANGED << presetContainer, stateForActor,
                            haveMigratedStorageUtilPresetAssignments >>
       ELSE \E foundStorageUtil \in BOOLEAN, entries \in LegacyStores :
              IF foundStorageUtil
              THEN LET migrated == MigrateStorageUtilPresetAssignmentsOverToSKSECosave(
                                       [container |-> presetContainer,
                                        registry |-> stateForActor],
                                       entries)
                   IN  /\ presetContainer' = migrated.container
                       /\ stateForActor' = migrated.registry
                       /\ haveMigratedStorageUtilPresetAssignments' = TRUE
                       /\ migration' = [ran |-> TRUE, entries |-> entries]
              ELSE /\ migration' = NoMigration
                   /\ UNCHANGED << presetContainer, stateForActor,
                                   haveMigratedStorageUtilPresetAssignments >>
    /\ lifecycle' = "running"
    /\ UNCHANGED << cosave, atSave, restarts, saves >>
    /\ UNCHANGED << saveLog, loadLog >>
    /\ UNCHANGED dispatchVars
    /\ UNCHANGED concurrentVars

\* The process ends and the game is started again: memory is as after
\* construction, the cosave on disk stays.
Restart ==
    /\ lifecycle = "running"
    /\ restarts < MaxRestarts
    /\ restarts' = restarts + 1
    /\ presetContainer' = EmptyContainer
    /\ stateForActor' = << >>
    /\ haveMigratedStorageUtilPresetAssignments' = FALSE
    /\ lifecycle' = "menu"
    /\ migration' = NoMigration
    /\ UNCHANGED << cosave, atSave, saves >>
    /\ UNCHANGED << saveLog, loadLog >>
    /\ UNCHANGED dispatchVars
    /\ UNCHANGED concurrentVars

Next ==
    \/ SaveState
    \/ RevertState
    \/ LoadState
    \/ SetStateUponStartOfNewGame
    \/ FixupAfterLoadingGame
    \/ Restart

Spec == Init /\ [][Next]_vars


\* ------------------------------------------------------------------------
\* Properties of the preset-identity table
\* ------------------------------------------------------------------------

Categories == BOOLEAN

\* C1: in every reachable state, no two distinct preset names of one
\* category are mapped to the same index.
C1_DistinctNamesDistinctIndexes ==
    \A isFemale \in Categories :
        LET map == IndexByName(presetContainer, isFemale)
        IN  \A n1 \in DOMAIN map, n2 \in DOMAIN map : n1 # n2 => map[n1] # map[n2]

\* The tables a migration run has after its first `count` entries.
TablesAfterEntries(tables, entries, count) ==
    MigrateStorageUtilPresetAssignmentsOverToSKSECosave(tables, SubSeq(entries, 1, count))

\* C2: a request for an index for a name that already has one in the
\* actor's category hands out that same index and leaves the counters, the
\* name maps and the dense tables as they were. Stated over every entry of
\* every migration run that a step carries out.
C2_KnownNameIsNotReallocated ==
    [][ migration'.ran /\ lifecycle = "loaded" /\ lifecycle' = "running" =>
          LET start == [container |-> presetContainer, registry |-> stateForActor]
              entries == migration'.entries
          IN  /\ TablesAfterEntries(start, entries, Len(entries))
                    = [container |-> presetContainer', registry |-> stateForActor']
              /\ \A i \in 1..Len(entries) :
                    LET before == TablesAfterEntries(start, entries, i - 1)
                        after == TablesAfterEntries(start, entries, i)
                        isFemale == IsFemale(entries[i].formID)
                        known == IndexByName(before.container, isFemale)
                    IN  /\ ~entries[i].valueIsNull
                        /\ entries[i].formID \in LoadedActors
                        /\ entries[i].value \in DOMAIN known
                        =>
                          /\ after.container = before.container
                          /\ entries[i].formID \notin DOMAIN before.registry =>
                                PresetIndexOf(after.registry[entries[i].formID])
                                    = known[entries[i].value] + 1
      ]_vars

\* A migration run whose second entry asks for the name that its first entry
\* has just been given an index for.
C2_Witness ==
    /\ migration.ran
    /\ lifecycle = "running"
    /\ Len(migration.entries) = 2
    /\ migration.entries[1].formID \in LoadedActors
    /\ migration.entries[2].formID \in LoadedActors
    /\ migration.entries[1].formID # migration.entries[2].formID
    /\ migration.entries[1].value = migration.entries[2].value
    /\ ~migration.entries[1].valueIsNull
    /\ ~migration.entries[2].valueIsNull
    /\ DOMAIN stateForActor = LoadedActors

\* The name -> index pairs of `earlier` are among those of `later`.
IndexesKept(earlier, later) ==
    \A isFemale \in Categories :
        LET was == IndexByName(earlier, isFemale)
            is == IndexByName(later, isFemale)
        IN  \A name \in DOMAIN was : name \in DOMAIN is /\ is[name] = was[name]

\* No name of `later` has the index that another name has in `earlier`.
IndexesNotGivenAway(earlier, later) ==
    \A isFemale \in Categories :
        LET was == IndexByName(earlier, isFemale)
            is == IndexByName(later, isFemale)
        IN  \A name \in DOMAIN was, other \in DOMAIN is :
                other # name => is[other] # was[name]

\* C3: a name that has an index keeps it through every step of a run, the
\* load of a completely written save brings back every index the names had
\* when the save was made (the revert in between empties the table for the
\* load to fill), and no other name is given an index a name holds.
C3_NameKeepsItsIndex ==
    [][ /\ lifecycle' \notin { "reverted", "menu" } =>
              /\ IndexesKept(presetContainer, presetContainer')
              /\ IndexesNotGivenAway(presetContainer, presetContainer')
        /\ lifecycle' = "loaded" /\ atSave.complete =>
              /\ IndexesKept(atSave.container, presetContainer')
              /\ IndexesNotGivenAway(atSave.container, presetContainer')
      ]_vars


\* ------------------------------------------------------------------------
\* The two record formats on their own: tables of chosen content are
\* saved, reverted and loaded
\* ------------------------------------------------------------------------

\* The form-IDs of the entities in the registries to save.
CodecFormIDs == { 20, 4660, 4661, 16777217, 2147483647 }

\* Packed states by entity: with and without the event guard, with spare
\* bits set, without a preset, with small and large preset indexes.
ActorStatePatterns ==
    { (20 :> PackActorState(1, 0, FALSE) @@ 4660 :> PackActorState(1, 0, TRUE)
         @@ 4661 :> PackActorState(2, 0, TRUE) @@ 16777217 :> PackActorState(0, 0, TRUE)
         @@ 2147483647 :> PackActorState(524287, 0, FALSE)),
      (20 :> PackActorState(3, 1, TRUE) @@ 4660 :> PackActorState(1, 0, FALSE)
         @@ 4661 :> PackActorState(1, 2047, TRUE) @@ 16777217 :> PackActorState(256, 0, FALSE)
         @@ 2147483647 :> PackActorState(0, 0, FALSE)) }

CodecRegistries ==
    { [formID \in entities |-> pattern[formID]] :
        entities \in SUBSET CodecFormIDs, pattern \in ActorStatePatterns }

\* Names by length: the empty name, names shorter than, as long as and
\* longer than one buffer, and one longer than two buffers.
NameOfLength(length) == [i \in 1..length |-> 65 + ((length + i) % 26)]

CodecNameLengths ==
    { 0, 1, 4, 5, BufferSize - 3, BufferSize + 5, 2 * BufferSize + 8 }

CodecNames == { NameOfLength(length) : length \in CodecNameLengths }

\* The name maps an allocation sequence can have built over at most two
\* names: the indexes are 0 .. n-1 in either order.
CodecNameMaps ==
    { map \in UNION { [names -> 0..(Cardinality(names) - 1)] :
                        names \in { n \in SUBSET CodecNames : Cardinality(n) <= 2 } } :
        \A n1 \in DOMAIN map, n2 \in DOMAIN map : n1 # n2 => map[n1] # map[n2] }

ContainerOf(femaleMap, maleMap) ==
    [femalePresetIndexByName |-> femaleMap, malePresetIndexByName |-> maleMap,
     nextFemalePresetIndex |-> Cardinality(DOMAIN femaleMap),
     nextMalePresetIndex |-> Cardinality(DOMAIN maleMap),
     allFemalePresetsByIndex |-> [i \in 1..Cardinality(DOMAIN femaleMap) |-> AbsentPreset],
     allMalePresetsByIndex |-> [i \in 1..Cardinality(DOMAIN maleMap) |-> AbsentPreset]]

CodecContainers ==
    { ContainerOf(femaleMap, maleMap) : femaleMap \in CodecNameMaps, maleMap \in CodecNameMaps }

CodecInit ==
    /\ \/ /\ stateForActor \in CodecRegistries
          /\ presetContainer = EmptyContainer
       \/ /\ stateForActor = << >>
          /\ presetContainer \in CodecContainers
    /\ haveMigratedStorageUtilPresetAssignments = TRUE
    /\ lifecycle = "running"
    /\ cosave = << >>
    /\ atSave = [container |-> EmptyContainer, registry |-> << >>, complete |-> FALSE]
    /\ saveLog = NothingSaved
    /\ loadLog = << >>
    /\ allocation = NoAllocation
    /\ readinessIdle
    /\ lookup = NoLookup
    /\ restarts = 0
    /\ saves = 0
    /\ migration = NoMigration
    /\ dispatchIdle

CodecNext ==
    \/ SaveState
    \/ RevertState
    \/ LoadState

CodecSpec == CodecInit /\ [][CodecNext]_vars

\* C4: the load of a save brings back, into the registry the revert has
\* emptied, exactly the entities the registry held when the save was made,
\* each with the preset index it had, and none with the event guard set.
C4_ActorRegistryRoundTrip ==
    lifecycle = "loaded" /\ atSave.complete =>
        /\ DOMAIN stateForActor = DOMAIN atSave.registry
        /\ \A formID \in DOMAIN stateForActor :
              /\ PresetIndexOf(stateForActor[formID]) = PresetIndexOf(atSave.registry[formID])
              /\ ~EventsAreBeingSent(stateForActor[formID])

\* A loaded registry of four entities, which filled the buffer exactly
\* twice, one of them saved with its guard set.
C4_Witness ==
    /\ lifecycle = "loaded"
    /\ atSave.complete
    /\ Cardinality(DOMAIN atSave.registry) = 2 * BufferUnits
    /\ Len(cosave[1].data) = 2 * BufferSize
    /\ \E formID \in DOMAIN atSave.registry : EventsAreBeingSent(atSave.registry[formID])
    /\ DOMAIN stateForActor = DOMAIN atSave.registry

\* C5: the load of a save brings back, for each category, the name map and
\* the counter that the table had when the save was made.
C5_PresetNameIndexMapRoundTrip ==
    lifecycle = "loaded" /\ atSave.complete =>
        /\ presetContainer.femalePresetIndexByName = atSave.container.femalePresetIndexByName
        /\ presetContainer.malePresetIndexByName = atSave.container.malePresetIndexByName
        /\ presetContainer.nextFemalePresetIndex = atSave.container.nextFemalePresetIndex
        /\ presetContainer.nextMalePresetIndex = atSave.container.nextMalePresetIndex

\* The same for the tables that do not hold the empty name.
PresetNameIndexMapRoundTripOfNonEmptyNames ==
    /\ lifecycle = "loaded"
    /\ atSave.complete
    /\ EmptyName \notin DOMAIN atSave.container.femalePresetIndexByName
    /\ EmptyName \notin DOMAIN atSave.container.malePresetIndexByName
    => C5_PresetNameIndexMapRoundTrip


\* ------------------------------------------------------------------------
\* Actor-change events
\* ------------------------------------------------------------------------

\* IActorChangeEventListener::OnActorPresetChangedWithoutGeneration::Flags
NoFlags == 0
PresetWasUnassigned == 1

\* The registered listeners, each with the plugin interface it calls through.
ListenerLists == { << >>, << "L1" >>, << "L1", "L2" >> }

\* The plugin interface of a caller that is not a listener.
OtherPlugin == "P"

\* AssignPresetPayload: an empty presetName (unassign) or the name of a
\* preset that is found, given by that preset's assignedIndex; the payload
\* has DoNotApplyMorphs set.
AssignPresetPayloads ==
    { [unassign |-> TRUE, assignedIndex |-> 0],
      [unassign |-> FALSE, assignedIndex |-> 0],
      [unassign |-> FALSE, assignedIndex |-> 1] }

\* PluginInterface::AssignPresetToActor with DoNotApplyMorphs, up to its call
\* of SendActorChangeEvent: the registry after the visit, whether an event
\* is sent, and what the prepareArguments closure has captured. A preset
\* name in a payload is given by the assigned index whose name view it is.
AssignPresetToActor(registry, formID, payload, interface) ==
    IF payload.unassign
    THEN LET previousPresetIndex ==
                 IF formID \in DOMAIN registry THEN PresetIndexOf(registry[formID]) ELSE 0
         IN  [registry |-> IF formID \in DOMAIN registry
                           THEN [registry EXCEPT ![formID] = WithPresetIndex(@, 0)]
                           ELSE registry,
              sends |-> previousPresetIndex # 0,
              capture |-> [flags |-> PresetWasUnassigned,
                           responsiblePluginInterface |-> interface,
                           presetName |-> previousPresetIndex - 1]]
    ELSE LET actorPresetIndex == payload.assignedIndex + 1
         IN  [registry |-> IF formID \in DOMAIN registry
                           THEN [registry EXCEPT ![formID] = WithPresetIndex(@, actorPresetIndex)]
                           ELSE Assign(registry, formID, WithPresetIndex(0, actorPresetIndex)),
              sends |-> TRUE,
              capture |-> [flags |-> NoFlags,
                           responsiblePluginInterface |-> interface,
                           presetName |-> payload.assignedIndex]]

\* The record of a call of PluginInterface::AssignPresetToActor: the payload,
\* the entry of the actor before the call and the value returned, true.
AssignPresetCall(call, registry, formID, payload) ==
    [op |-> "AssignPresetToActor", call |-> call, formID |-> formID, isFemale |-> IsFemale(formID),
     payload |-> payload, result |-> 1, before |-> EntryOf(registry, formID)]

\* The script function AssignPresetToActor with a_doNotApplyMorphs: the
\* registry after it. It sends no event.
PapyrusAssignPresetToActor(registry, formID, payload) ==
    IF payload.unassign
    THEN IF formID \in DOMAIN registry
         THEN [registry EXCEPT ![formID] = WithPresetIndex(@, 0)]
         ELSE registry
    ELSE IF formID \in DOMAIN registry
         THEN [registry EXCEPT ![formID] = WithPresetIndex(@, payload.assignedIndex + 1)]
         ELSE Assign(registry, formID, WithPresetIndex(0, payload.assignedIndex + 1))

\* What the prepareArguments closures return: std::make_pair(flags, payload).
PrepareArguments(capture) ==
    [flags |-> capture.flags,
     payload |-> [responsiblePluginInterface |-> capture.responsiblePluginInterface,
                  presetName |-> capture.presetName]]

\* The `arguments` local before prepareArguments has run.
NoArguments ==
    [flags |-> NoFlags, payload |-> [responsiblePluginInterface |-> "", presetName |-> -1]]

\* An activation of SendActorChangeEvent that has not yet taken the lock.
\* pc: "send" before the lock is taken, "deliver" from the guard being set to
\* the guard being cleared. next: the position of the listener the loop is
\* at; inListener: that listener's method is running. History: prepared
\* (the result of prepareArguments), seen (what each listener was called
\* with), left (the payload as each
\* listener left it), suppressed (the notifications sent from this
\* activation's listeners that returned without delivery).
Activation(formID, capture) ==
    [actor |-> formID, pc |-> "send", capture |-> capture, arguments |-> NoArguments,
     next |-> 1, inListener |-> FALSE,
     prepared |-> NoArguments, seen |-> << >>, left |-> << >>, suppressed |-> 0]

Top(stack) == stack[Len(stack)]

Pop(stack) == SubSeq(stack, 1, Len(stack) - 1)

\* Faulty variants of the guard, for sensitivity runs.
NeverRecursive(registry, formID) == FALSE

AnyActorEventsAreBeingSent(registry, formID) ==
    \E other \in DOMAIN registry : EventsAreBeingSent(registry[other])

GuardLeftAsItIs(registry, formID) == registry

\* A guard clear that stores a whole word, the index bits with it.
WholeStateCleared(registry, formID) ==
    IF formID \in DOMAIN registry THEN [registry EXCEPT ![formID] = 0] ELSE registry

\* isRecursiveActorEvent as the visitor of emplace_or_visit leaves it.
IsRecursiveActorEvent(registry, formID) ==
    formID \in DOMAIN registry /\ EventsAreBeingSent(registry[formID])

\* A guard that is set by storing the fallback state over the entry.
FallbackStateStoredOverEntry(registry, formID) ==
    Assign(registry, formID, PackActorState(0, 0, TRUE))

\* emplace_or_visit(formID, fallbackActorState, ...): the guard is set, in
\* a new entry if the actor has none.
MarkEventsAreBeingSent(registry, formID) ==
    IF formID \in DOMAIN registry
    THEN [registry EXCEPT ![formID] = WithEventsBeingSent(@, TRUE)]
    ELSE Assign(registry, formID, PackActorState(0, 0, TRUE))

\* visit(formID, ...): the guard is cleared.
ClearEventsAreBeingSent(registry, formID) ==
    IF formID \in DOMAIN registry
    THEN [registry EXCEPT ![formID] = WithEventsBeingSent(@, FALSE)]
    ELSE registry

\* A variant that hands each listener a fresh result of prepareArguments.
ArgumentsPreparedAnew(activation) == PrepareArguments(activation.capture)

\* eventMethod(eventListener, a_actor, arguments): the one `arguments`
\* object is handed to every listener, the payload by reference.
ListenerArguments(activation) == activation.arguments

\* The return of SendActorChangeEvent when it delivers nothing: the
\* activation is gone, the lock_guard has released what it took.
ReturnWithoutDelivery(stack, wasSuppressed) ==
    IF Len(stack) >= 2 /\ wasSuppressed
    THEN [Pop(stack) EXCEPT ![Len(stack) - 1].suppressed = @ + 1]
    ELSE Pop(stack)

\* The registries the fan-outs start from.
DispatchRegistries ==
    { << >>,
      (4660 :> PackActorState(1, 0, FALSE)),
      (4660 :> PackActorState(1, 0, FALSE) @@ 4661 :> PackActorState(2, 0, FALSE)) }

DispatchInit ==
    /\ presetContainer = EmptyContainer
    /\ stateForActor \in DispatchRegistries
    /\ haveMigratedStorageUtilPresetAssignments = TRUE
    /\ lifecycle = "running"
    /\ cosave = << >>
    /\ atSave = [container |-> EmptyContainer, registry |-> << >>, complete |-> FALSE]
    /\ saveLog = NothingSaved
    /\ loadLog = << >>
    /\ allocation = NoAllocation
    /\ readinessIdle
    /\ lookup = NoLookup
    /\ restarts = 0
    /\ saves = 0
    /\ migration = NoMigration
    /\ actorChangeEventListeners \in ListenerLists
    /\ actorChangeListenerLock = [owner |-> "none", count |-> 0]
    /\ callStack = [thread \in Threads |-> << >>]
    /\ apiCalls = 0
    /\ listenerCalls = 0

\* A plugin calls AssignPresetToActor from outside any listener.
PluginAssignsPresetToActor ==
    /\ apiCalls < MaxTopLevelCalls
    /\ \E thread \in Threads, formID \in LoadedActors, payload \in AssignPresetPayloads :
         LET call == AssignPresetToActor(stateForActor, formID, payload, OtherPlugin)
         IN  /\ callStack[thread] = << >>
             /\ stateForActor' = call.registry
             /\ callStack' = IF call.sends
                             THEN [callStack EXCEPT
                                      ![thread] = << Activation(formID, call.capture) >>]
                             ELSE callStack
             /\ lookup' = AssignPresetCall(apiCalls + listenerCalls + 1, stateForActor, formID, payload)
    /\ apiCalls' = apiCalls + 1
    /\ UNCHANGED << actorChangeEventListeners, actorChangeListenerLock, listenerCalls >>
    /\ UNCHANGED tableVarsButRegistry

\* A script calls AssignPresetToActor.
ScriptAssignsPresetToActor ==
    /\ apiCalls < MaxTopLevelCalls
    /\ \E formID \in LoadedActors, payload \in AssignPresetPayloads :
         stateForActor' = PapyrusAssignPresetToActor(stateForActor, formID, payload)
    /\ apiCalls' = apiCalls + 1
    /\ UNCHANGED << actorChangeEventListeners, actorChangeListenerLock, callStack,
                    listenerCalls >>
    /\ UNCHANGED tableVarsButRegistry
    /\ UNCHANGED lookup

\* The listener that is running calls AssignPresetToActor through its own
\* plugin interface.
ListenerAssignsPresetToActor ==
    /\ \E thread \in Threads, formID \in LoadedActors, payload \in AssignPresetPayloads :
         LET stack == callStack[thread]
             running == Top(stack)
             listener == actorChangeEventListeners[running.next]
             call == AssignPresetToActor(stateForActor, formID, payload, listener)
         IN  /\ Len(stack) > 0
             /\ Len(stack) < MaxNesting
             /\ running.pc = "deliver"
             /\ running.inListener
             /\ listenerCalls < MaxListenerCalls
             /\ stateForActor' = call.registry
             /\ callStack' = [callStack EXCEPT
                                 ![thread] = IF call.sends
                                             THEN Append(stack, Activation(formID, call.capture))
                                             ELSE stack]
             /\ lookup' = AssignPresetCall(apiCalls + listenerCalls + 1, stateForActor, formID, payload)
    /\ listenerCalls' = listenerCalls + 1
    /\ UNCHANGED << actorChangeEventListeners, actorChangeListenerLock, apiCalls >>
    /\ UNCHANGED tableVarsButRegistry

\* A lock_guard that takes no lock, for sensitivity runs.
LockIsNotTaken(lock, thread) == TRUE

\* std::lock_guard<std::recursive_mutex>: the thread goes on when no other
\* thread owns the lock.
MayLock(lock, thread) == lock.owner \in { "none", thread }

\* SendActorChangeEvent from the lock_guard to the call of prepareArguments.
EnterSendActorChangeEvent ==
    /\ \E thread \in Threads :
         LET stack == callStack[thread]
             activation == Top(stack)
             isRecursiveActorEvent == IsRecursiveActorEvent(stateForActor, activation.actor)
             arguments == PrepareArguments(activation.capture)
         IN  /\ Len(stack) > 0
             /\ activation.pc = "send"
             /\ MayLock(actorChangeListenerLock, thread)
             /\ IF Len(actorChangeEventListeners) = 0
                THEN /\ callStack' = [callStack EXCEPT
                                         ![thread] = ReturnWithoutDelivery(stack, FALSE)]
                     /\ UNCHANGED << stateForActor, actorChangeListenerLock >>
                ELSE /\ stateForActor' = MarkEventsAreBeingSent(stateForActor, activation.actor)
                     /\ IF isRecursiveActorEvent
                        THEN /\ callStack' = [callStack EXCEPT
                                                 ![thread] = ReturnWithoutDelivery(stack, TRUE)]
                             /\ UNCHANGED actorChangeListenerLock
                        ELSE /\ callStack' = [callStack EXCEPT
                                                 ![thread][Len(stack)] =
                                                     [activation EXCEPT !.pc = "deliver",
                                                                        !.arguments = arguments,
                                                                        !.prepared = arguments]]
                             /\ actorChangeListenerLock' =
                                    [owner |-> thread,
                                     count |-> actorChangeListenerLock.count + 1]
    /\ UNCHANGED << actorChangeEventListeners, apiCalls, listenerCalls >>
    /\ UNCHANGED tableVarsButRegistry
    /\ UNCHANGED lookup

\* One iteration of the loop over actorChangeEventListeners: the call.
InvokeListener ==
    /\ \E thread \in Threads :
         LET stack == callStack[thread]
             activation == Top(stack)
         IN  /\ Len(stack) > 0
             /\ activation.pc = "deliver"
             /\ ~activation.inListener
             /\ activation.next <= Len(actorChangeEventListeners)
             /\ callStack' = [callStack EXCEPT
                                 ![thread][Len(stack)] =
                                     [activation EXCEPT
                                         !.inListener = TRUE,
                                         !.seen = Append(@,
                                             [listener |-> actorChangeEventListeners[activation.next],
                                              arguments |-> ListenerArguments(activation)])]]
    /\ UNCHANGED << actorChangeEventListeners, actorChangeListenerLock, apiCalls,
                    listenerCalls >>
    /\ UNCHANGED tableVars

\* The listener that is running stores its own plugin interface in the
\* payload's responsiblePluginInterface, the one field that is not const.
ListenerWritesPayload ==
    /\ \E thread \in Threads :
         LET stack == callStack[thread]
             activation == Top(stack)
             listener == actorChangeEventListeners[activation.next]
         IN  /\ Len(stack) > 0
             /\ activation.pc = "deliver"
             /\ activation.inListener
             /\ activation.arguments.payload.responsiblePluginInterface # listener
             /\ callStack' = [callStack EXCEPT
                                 ![thread][Len(stack)].arguments.payload.responsiblePluginInterface =
                                     listener]
    /\ UNCHANGED << actorChangeEventListeners, actorChangeListenerLock, apiCalls,
                    listenerCalls >>
    /\ UNCHANGED tableVars

\* One iteration of the loop: the listener's method returns.
ListenerReturns ==
    /\ \E thread \in Threads :
         LET stack == callStack[thread]
             activation == Top(stack)
         IN  /\ Len(stack) > 0
             /\ activation.pc = "deliver"
             /\ activation.inListener
             /\ callStack' = [callStack EXCEPT
                                 ![thread][Len(stack)] =
                                     [activation EXCEPT
                                         !.inListener = FALSE,
                                         !.next = @ + 1,
                                         !.left = Append(@, activation.arguments.payload)]]
    /\ UNCHANGED << actorChangeEventListeners, actorChangeListenerLock, apiCalls,
                    listenerCalls >>
    /\ UNCHANGED tableVars

\* SendActorChangeEvent after the loop: the guard is cleared, the function
\* returns and the lock_guard releases the lock.
ExitSendActorChangeEvent ==
    /\ \E thread \in Threads :
         LET stack == callStack[thread]
             activation == Top(stack)
         IN  /\ Len(stack) > 0
             /\ activation.pc = "deliver"
             /\ ~activation.inListener
             /\ activation.next > Len(actorChangeEventListeners)
             /\ stateForActor' = ClearEventsAreBeingSent(stateForActor, activation.actor)
             /\ callStack' = [callStack EXCEPT ![thread] = Pop(stack)]
             /\ actorChangeListenerLock' =
                    [owner |-> IF actorChangeListenerLock.count = 1 THEN "none" ELSE thread,
                     count |-> actorChangeListenerLock.count - 1]
    /\ UNCHANGED << actorChangeEventListeners, apiCalls, listenerCalls >>
    /\ UNCHANGED tableVarsButRegistry
    /\ UNCHANGED lookup

DispatchNext ==
    \/ PluginAssignsPresetToActor
    \/ ScriptAssignsPresetToActor
    \/ ListenerAssignsPresetToActor
    \/ EnterSendActorChangeEvent
    \/ InvokeListener
    \/ ListenerWritesPayload
    \/ ListenerReturns
    \/ ExitSendActorChangeEvent

DispatchSpec == DispatchInit /\ [][DispatchNext]_vars


\* ------------------------------------------------------------------------
\* Properties of the event dispatch
\* ------------------------------------------------------------------------

\* The actors that the activations below the innermost one of `stack` are
\* delivering an event for.
EnclosingActors(stack) ==
    { stack[i].actor : i \in { j \in 1..(Len(stack) - 1) : stack[j].pc = "deliver" } }

\* The innermost activation of `thread` is a notification sent by a
\* listener, about to enter SendActorChangeEvent, and does so in this step.
NestedNotificationEnters(thread) ==
    /\ Len(callStack[thread]) >= 2
    /\ Top(callStack[thread]).pc = "send"
    /\ callStack'[thread] # callStack[thread]

HasGuard(formID) ==
    formID \in DOMAIN stateForActor /\ EventsAreBeingSent(stateForActor[formID])

\* C6: a notification for an actor, sent by a listener while an event for
\* that same actor is being delivered, returns at once: the activation is
\* gone, no listener has been called for it or for any enclosing
\* activation, and the listener lock is as it was.
C6_NestedNotificationForSameActorIsNotDelivered ==
    [][ \A thread \in Threads :
          NestedNotificationEnters(thread)
          /\ Top(callStack[thread]).actor \in EnclosingActors(callStack[thread])
          => /\ Len(callStack'[thread]) = Len(callStack[thread]) - 1
             /\ \A i \in 1..Len(callStack'[thread]) :
                   /\ callStack'[thread][i].seen = callStack[thread][i].seen
                   /\ callStack'[thread][i].inListener = callStack[thread][i].inListener
                   /\ callStack'[thread][i].next = callStack[thread][i].next
             /\ actorChangeListenerLock' = actorChangeListenerLock
      ]_vars

\* An outermost fan-out one of whose listeners has sent a notification that
\* returned without delivery; it can only have been for the same actor.
C6_Witness ==
    \E thread \in Threads :
        /\ Len(callStack[thread]) = 1
        /\ callStack[thread][1].pc = "deliver"
        /\ callStack[thread][1].inListener
        /\ callStack[thread][1].suppressed >= 1

\* C7 as amended: the arguments are prepared once, when the fan-out starts;
\* every listener is called with the flags and the preset name prepared
\* then, whatever listeners called before it did to the registry; the
\* payload is one object handed on by reference, so that each listener
\* finds responsiblePluginInterface as the listener before it left it.
C7_ListenersSeeThePreparedArguments ==
    \A thread \in Threads :
        \A i \in 1..Len(callStack[thread]) :
            LET activation == callStack[thread][i]
            IN  activation.pc = "deliver" =>
                  /\ activation.prepared = PrepareArguments(activation.capture)
                  /\ \A k \in 1..Len(activation.seen) :
                        LET arguments == activation.seen[k].arguments
                        IN  /\ arguments.flags = activation.prepared.flags
                            /\ arguments.payload.presetName
                                  = activation.prepared.payload.presetName
                            /\ arguments.payload.responsiblePluginInterface
                                  = IF k = 1
                                    THEN activation.prepared.payload.responsiblePluginInterface
                                    ELSE activation.left[k - 1].responsiblePluginInterface

\* The second listener of a fan-out has been called after the first one
\* gave the actor another preset than the one the event is about.
C7_Witness ==
    \E thread \in Threads :
        /\ apiCalls = 1
        /\ listenerCalls >= 1
        /\ Len(callStack[thread]) = 1
        /\ callStack[thread][1].pc = "deliver"
        /\ Len(callStack[thread][1].seen) = 2
        /\ callStack[thread][1].capture.flags = NoFlags
        /\ callStack[thread][1].actor \in DOMAIN stateForActor
        /\ PresetIndexOf(stateForActor[callStack[thread][1].actor])
              # callStack[thread][1].capture.presetName + 1

\* C7 as stated: every listener of a fan-out is called with exactly the
\* flags and the payload that were prepared when the fan-out started.
C7_ListenersSeeIdenticalArguments ==
    \A thread \in Threads :
        \A i \in 1..Len(callStack[thread]) :
            \A k \in 1..Len(callStack[thread][i].seen) :
                callStack[thread][i].seen[k].arguments = callStack[thread][i].prepared

\* C8: no two activations, on whatever threads and at whatever depth, are
\* delivering an event for the same actor.
C8_OneFanOutPerActor ==
    \A t1 \in Threads, t2 \in Threads :
        \A i \in 1..Len(callStack[t1]), j \in 1..Len(callStack[t2]) :
            /\ t1 # t2 \/ i # j
            /\ callStack[t1][i].pc = "deliver"
            /\ callStack[t2][j].pc = "deliver"
            => callStack[t1][i].actor # callStack[t2][j].actor

\* While one thread's listener handles an event for an actor, another
\* thread has sent a notification for the same actor.
C8_Witness ==
    \E t1 \in Threads, t2 \in Threads :
        /\ t1 # t2
        /\ Len(callStack[t1]) >= 1
        /\ callStack[t1][1].pc = "deliver"
        /\ callStack[t1][1].inListener
        /\ Len(callStack[t2]) = 1
        /\ callStack[t2][1].pc = "send"
        /\ callStack[t2][1].actor = callStack[t1][1].actor

\* C9: a notification sent by a listener for an actor for which no
\* enclosing activation is delivering starts a fan-out of its own, which
\* calls every registered listener in registration order before it ends;
\* one for an actor of an enclosing fan-out returns without delivery.
C9_NestedNotificationForOtherActorIsDelivered ==
    [][ \A thread \in Threads :
          /\ NestedNotificationEnters(thread) =>
                IF Top(callStack[thread]).actor \in EnclosingActors(callStack[thread])
                THEN Len(callStack'[thread]) = Len(callStack[thread]) - 1
                ELSE /\ Len(callStack'[thread]) = Len(callStack[thread])
                     /\ Top(callStack'[thread]).pc = "deliver"
                     /\ HasGuard(Top(callStack[thread]).actor)'
          /\ /\ Len(callStack[thread]) >= 2
             /\ Top(callStack[thread]).pc = "deliver"
             /\ Len(callStack'[thread]) < Len(callStack[thread])
             => [k \in 1..Len(Top(callStack[thread]).seen) |->
                    Top(callStack[thread]).seen[k].listener] = actorChangeEventListeners
      ]_vars

\* Inside a fan-out for one actor, a fan-out for another actor has called
\* every listener, and a notification sent from within it was not delivered.
C9_Witness ==
    \E thread \in Threads :
        /\ Len(callStack[thread]) = 2
        /\ callStack[thread][1].pc = "deliver"
        /\ callStack[thread][2].pc = "deliver"
        /\ callStack[thread][1].actor # callStack[thread][2].actor
        /\ callStack[thread][2].suppressed >= 1
        /\ ~callStack[thread][2].inListener
        /\ Len(callStack[thread][2].seen) = Len(actorChangeEventListeners)

\* C10: an actor's guard is set exactly while an activation is delivering
\* an event for that actor.
C10_GuardIsSetExactlyDuringFanOut ==
    \A formID \in LoadedActors :
        HasGuard(formID) <=>
            \E thread \in Threads :
                \E i \in 1..Len(callStack[thread]) :
                    /\ callStack[thread][i].pc = "deliver"
                    /\ callStack[thread][i].actor = formID

\* A fan-out goes on to its second listener, the guard still set, after a
\* notification sent by its first listener returned without delivery.
C10_Witness ==
    \E thread \in Threads :
        /\ Len(callStack[thread]) = 1
        /\ callStack[thread][1].pc = "deliver"
        /\ callStack[thread][1].next = 2
        /\ callStack[thread][1].inListener
        /\ callStack[thread][1].suppressed >= 1
        /\ Len(callStack[thread][1].seen) = 2
        /\ HasGuard(callStack[thread][1].actor)


\* ------------------------------------------------------------------------
\* Saves that fail and cosaves of any content
\* ------------------------------------------------------------------------

\* The number of the WriteRecordData call the host fails, 0 for none.
MaxFailingCall == 3

FailingSinks == 0..MaxFailingCall

\* The tables in memory: a registry of one entity or of three, which is
\* more than one buffer of entries, and name maps of no name, of the empty
\* name, of two short names and of one name longer than a buffer.
CosaveRegistries ==
    { registry \in CodecRegistries : DOMAIN registry \in { { 4660 }, { 20, 4660, 4661 } } }

CosaveNameMaps ==
    { map \in CodecNameMaps :
        DOMAIN map \in { {}, { EmptyName }, { NameOfLength(1), NameOfLength(5) }, { NameOfLength(BufferSize + 5) } } }

CosaveContainers ==
    { ContainerOf(femaleMap, maleMap) : femaleMap \in CosaveNameMaps, maleMap \in CosaveNameMaps }

\* The bytes the writers produce on a host that fails no call.
ActorRegistryData(registry, order) ==
    WriteRecordDataForActorRegistryV0(OpenSink(0), FreshBuffer(0), registry, order).writer.sink.data

PresetNameIndexMapData(container, femaleOrder, maleOrder) ==
    WriteRecordDataForPresetNameIndexMapV0(OpenSink(0), FreshBuffer(0), container, femaleOrder, maleOrder).writer.sink.data

Record(type, version, data) == [type |-> type, version |-> version, data |-> data]

\* data without its last `count` bytes.
Truncated(data, count) == SubSeq(data, 1, Len(data) - count)

\* The tables behind the records of a cosave LoadState is handed.
RecordedRegistry == (20 :> PackActorState(3, 0, FALSE) @@ 4660 :> PackActorState(1, 0, FALSE) @@ 4661 :> PackActorState(2, 0, FALSE))
OtherRecordedRegistry == (20 :> PackActorState(7, 0, FALSE) @@ 16777217 :> PackActorState(5, 0, FALSE))
RecordedContainer == ContainerOf((NameOfLength(5) :> 0 @@ NameOfLength(4) :> 1), (NameOfLength(1) :> 0))
OtherRecordedContainer == ContainerOf((NameOfLength(4) :> 0), (NameOfLength(5) :> 0 @@ NameOfLength(1) :> 1))

ActorRegistryRecord == Record(ActorRegistryTypeID, 0, ActorRegistryData(RecordedRegistry, << 20, 4660, 4661 >>))
OtherActorRegistryRecord == Record(ActorRegistryTypeID, 0, ActorRegistryData(OtherRecordedRegistry, << 20, 16777217 >>))
PresetNameIndexMapRecord == Record(PresetNameIndexMapTypeID, 0, PresetNameIndexMapData(RecordedContainer, << NameOfLength(5), NameOfLength(4) >>, << NameOfLength(1) >>))
OtherPresetNameIndexMapRecord == Record(PresetNameIndexMapTypeID, 0, PresetNameIndexMapData(OtherRecordedContainer, << NameOfLength(4) >>, << NameOfLength(5), NameOfLength(1) >>))

\* Records whose read fails: a registry record that ends in the middle of
\* its third entry, and a name record that ends before its male section.
MisalignedActorRegistryRecord == Record(ActorRegistryTypeID, 0, Truncated(ActorRegistryRecord.data, 4))
CutPresetNameIndexMapRecord == Record(PresetNameIndexMapTypeID, 0, Truncated(PresetNameIndexMapRecord.data, 16))

\* Records LoadState has no reader for: of another plugin's type, and of a
\* known type in a later version.
UnknownTypeRecord == Record("unknown", 0, ActorRegistryRecord.data)
ActorRegistryRecordOfLaterVersion == Record(ActorRegistryTypeID, 1, OtherActorRegistryRecord.data)
PresetNameIndexMapRecordOfLaterVersion == Record(PresetNameIndexMapTypeID, 1, OtherPresetNameIndexMapRecord.data)

CosaveRecords ==
    { ActorRegistryRecord, OtherActorRegistryRecord, PresetNameIndexMapRecord,
      OtherPresetNameIndexMapRecord, MisalignedActorRegistryRecord,
      CutPresetNameIndexMapRecord, UnknownTypeRecord, ActorRegistryRecordOfLaterVersion,
      PresetNameIndexMapRecordOfLaterVersion }

MaxCosaveRecords == 3

Cosaves == SeqsUpTo(CosaveRecords, MaxCosaveRecords)

CosaveInit ==
    /\ stateForActor \in CosaveRegistries
    /\ presetContainer \in CosaveContainers
    /\ haveMigratedStorageUtilPresetAssignments = TRUE
    /\ lifecycle = "running"
    /\ cosave = << >>
    /\ atSave = [container |-> EmptyContainer, registry |-> << >>, complete |-> FALSE]
    /\ saveLog = NothingSaved
    /\ loadLog = << >>
    /\ allocation = NoAllocation
    /\ readinessIdle
    /\ lookup = NoLookup
    /\ restarts = 0
    /\ saves = 0
    /\ migration = NoMigration
    /\ dispatchIdle

\* SaveState on a host that may refuse to open a record and may fail a
\* WriteRecordData call.
SaveStateOnFailingHost == SaveStateOn(BOOLEAN, FailingSinks)

\* The player picks a save that this run did not write: its records are
\* those of another run, of another version, or damaged.
CosaveFromElsewhere ==
    /\ lifecycle = "running"
    /\ saves < MaxSaves
    /\ saves' = saves + 1
    /\ cosave' \in Cosaves
    /\ atSave' = [container |-> EmptyContainer, registry |-> << >>, complete |-> FALSE]
    /\ saveLog' = NothingSaved
    /\ UNCHANGED << presetContainer, stateForActor, haveMigratedStorageUtilPresetAssignments, lifecycle, restarts, migration, loadLog >>
    /\ UNCHANGED dispatchVars
    /\ UNCHANGED concurrentVars

CosaveNext ==
    \/ SaveStateOnFailingHost
    \/ CosaveFromElsewhere
    \/ RevertState
    \/ LoadState

CosaveSpec == CosaveInit /\ [][CosaveNext]_vars


\* The records of a cosave that are of a known type and of version 0.
IsKnownRecord(record) ==
    /\ record.type \in { ActorRegistryTypeID, PresetNameIndexMapTypeID }
    /\ record.version = 0

KnownRecords(records) == SelectSeq(records, IsKnownRecord)

\* C11: a load leaves the registry and the identity table as the load of the
\* same cosave without its records of unknown type and of unknown version
\* would: such a record changes nothing and the records before and after it
\* are processed as if it were not there.
C11_UnknownRecordsAreSkipped ==
    [][lifecycle = "reverted" /\ lifecycle' = "loaded" =>
        \E fill \in GarbageBytes :
            LET loaded == LoadStateTables(FreshBuffer(fill), KnownRecords(cosave), presetContainer, stateForActor)
            IN  /\ stateForActor' = loaded.registry
                /\ presetContainer' = loaded.container]_vars

\* A loaded cosave with an unknown record between two valid ones, both of
\* which are in the tables.
C11_Witness ==
    /\ lifecycle = "loaded"
    /\ Len(cosave) = 3
    /\ cosave[1] = ActorRegistryRecord
    /\ cosave[2] \in { UnknownTypeRecord, ActorRegistryRecordOfLaterVersion, PresetNameIndexMapRecordOfLaterVersion }
    /\ cosave[3] = PresetNameIndexMapRecord
    /\ stateForActor = RecordedRegistry
    /\ presetContainer.femalePresetIndexByName = RecordedContainer.femalePresetIndexByName
    /\ presetContainer.malePresetIndexByName = RecordedContainer.malePresetIndexByName


\* The writer of an opened record made a call that failed.
FlushFailed(log) == log.opened /\ log.failAt # 0 /\ Len(log.calls) >= log.failAt

\* The writer reported failure and its failed call was its last.
StoppedAtFailedFlush(log) == ~log.succeeded /\ Len(log.calls) = log.failAt

\* C12: for both record kinds, a writer one of whose WriteRecordData calls
\* failed reports failure and made no call after the failed one.
C12_NoWriteAfterFailedFlush ==
    /\ FlushFailed(saveLog.actorRegistry) => StoppedAtFailedFlush(saveLog.actorRegistry)
    /\ FlushFailed(saveLog.presetNameIndexMap) => StoppedAtFailedFlush(saveLog.presetNameIndexMap)

\* The writer of the name record does stop at its failed call.
PresetNameWriterStopsAtFailedFlush ==
    FlushFailed(saveLog.presetNameIndexMap) => StoppedAtFailedFlush(saveLog.presetNameIndexMap)

\* The writer of the registry record reports the failure, and stops at a
\* failed call unless that call was the flush of a full buffer.
ActorRegistryWriterReportsFailedFlush ==
    FlushFailed(saveLog.actorRegistry) =>
        /\ ~saveLog.actorRegistry.succeeded
        /\ \/ Len(saveLog.actorRegistry.calls) = saveLog.actorRegistry.failAt
           \/ /\ Len(saveLog.actorRegistry.calls) = saveLog.actorRegistry.failAt + 1
              /\ saveLog.actorRegistry.calls[saveLog.actorRegistry.failAt] = BufferSize
              /\ saveLog.actorRegistry.calls[saveLog.actorRegistry.failAt + 1] = BufferSize


\* The last LoadState logged `message`.
Logged(message) == \E i \in 1..Len(loadLog) : loadLog[i] = message

\* C13: after a load in which the read of a record failed, the table that
\* record populates is empty: the registry holds no entity, or the name maps
\* hold no name and the counters are 0.
C13_FailedReadLeavesTableEmpty ==
    lifecycle = "loaded" =>
        /\ Logged("Failed to load the actor-registry!") => stateForActor = << >>
        /\ Logged("Failed to load the preset-name-index-map!") =>
              /\ presetContainer.femalePresetIndexByName = << >>
              /\ presetContainer.malePresetIndexByName = << >>
              /\ presetContainer.nextFemalePresetIndex = 0
              /\ presetContainer.nextMalePresetIndex = 0


IsActorRegistryRecord(record) == record.type = ActorRegistryTypeID
IsPresetNameIndexMapRecord(record) == record.type = PresetNameIndexMapTypeID

\* No WriteRecordData call the writer made for the record failed.
NoFlushFailed(log) == log.failAt = 0 \/ log.failAt > Len(log.calls)

\* C14: a load leaves the identity table as the load of the name records of
\* the cosave alone would, and the registry as the load of its registry
\* records alone would, whether or not the read of the other kind fails and
\* in whatever order the records come; and a save whose host opens the name
\* record and fails none of its writes writes that record with success,
\* whatever happened to the registry record.
C14_RecordKindsDoNotHinderEachOther ==
    [][/\ lifecycle = "reverted" /\ lifecycle' = "loaded" =>
            \E fill \in GarbageBytes :
                /\ presetContainer' = LoadStateTables(FreshBuffer(fill), SelectSeq(cosave, IsPresetNameIndexMapRecord), presetContainer, stateForActor).container
                /\ stateForActor' = LoadStateTables(FreshBuffer(fill), SelectSeq(cosave, IsActorRegistryRecord), presetContainer, stateForActor).registry
       /\ saveLog'.presetNameIndexMap.opened /\ NoFlushFailed(saveLog'.presetNameIndexMap) =>
            /\ saveLog'.presetNameIndexMap.succeeded
            /\ Len(saveLog'.presetNameIndexMap.calls) > 0
            /\ cosave'[Len(cosave')].type = PresetNameIndexMapTypeID]_vars

\* A load in which the read of the registry record failed after the
\* entities of its first buffer, and which has the names and counters of the
\* name record that follows it.
C14_Witness ==
    /\ lifecycle = "loaded"
    /\ cosave = << MisalignedActorRegistryRecord, PresetNameIndexMapRecord >>
    /\ Logged("Failed to load the actor-registry!")
    /\ DOMAIN stateForActor = { 20, 4660 }
    /\ presetContainer.femalePresetIndexByName = RecordedContainer.femalePresetIndexByName
    /\ presetContainer.malePresetIndexByName = RecordedContainer.malePresetIndexByName
    /\ presetContainer.nextFemalePresetIndex = 2
    /\ presetContainer.nextMalePresetIndex = 1

\* The other way round and in the other order: the read of the name record
\* failed and the registry record before it is loaded; and a save whose
\* registry record could not be opened, or had a write fail, and whose name
\* record was written with success.
NameRecordFailedAndRegistryLoaded ==
    /\ lifecycle = "loaded"
    /\ cosave = << ActorRegistryRecord, CutPresetNameIndexMapRecord >>
    /\ Logged("Failed to load the preset-name-index-map!")
    /\ stateForActor = RecordedRegistry

NameRecordSavedAfterRegistryFailed ==
    /\ ~saveLog.actorRegistry.succeeded
    /\ saveLog.presetNameIndexMap.succeeded
    /\ Len(saveLog.presetNameIndexMap.calls) > 1


\* records[i] is a record of a known type and version that comes after
\* another of its type.
IsSurplusRecord(records, i) ==
    /\ IsKnownRecord(records[i])
    /\ \E j \in 1..(i - 1) : IsKnownRecord(records[j]) /\ records[j].type = records[i].type

HasSurplusRecord(records, type) ==
    \E i \in 1..Len(records) : records[i].type = type /\ IsSurplusRecord(records, i)

\* The first n records without the surplus ones.
RECURSIVE WithoutSurplusRecords(_, _)
WithoutSurplusRecords(records, n) ==
    IF n = 0 THEN << >>
    ELSE IF IsSurplusRecord(records, n) THEN WithoutSurplusRecords(records, n - 1)
    ELSE Append(WithoutSurplusRecords(records, n - 1), records[n])

\* A load leaves the tables as the load of the cosave without its surplus
\* records would: only the first record of a kind is applied.
OnlyFirstRecordOfAKindIsApplied ==
    [][lifecycle = "reverted" /\ lifecycle' = "loaded" =>
        \E fill \in GarbageBytes :
            LET loaded == LoadStateTables(FreshBuffer(fill), WithoutSurplusRecords(cosave, Len(cosave)), presetContainer, stateForActor)
            IN  /\ stateForActor' = loaded.registry
                /\ presetContainer' = loaded.container]_vars

\* C15: of several records of one kind a load applies only the first, and
\* it logs a warning when the cosave has surplus registry records and when
\* it has surplus name records.
C15_SurplusRecordsAreIgnoredWithWarning ==
    [][lifecycle = "reverted" /\ lifecycle' = "loaded" =>
        /\ \E fill \in GarbageBytes :
              LET loaded == LoadStateTables(FreshBuffer(fill), WithoutSurplusRecords(cosave, Len(cosave)), presetContainer, stateForActor)
              IN  /\ stateForActor' = loaded.registry
                  /\ presetContainer' = loaded.container
        /\ HasSurplusRecord(cosave, PresetNameIndexMapTypeID) =>
              \E i \in 1..Len(loadLog') : loadLog'[i] = "Multiple preset-name-index-map records"
        /\ HasSurplusRecord(cosave, ActorRegistryTypeID) =>
              \E i \in 1..Len(loadLog') : loadLog'[i] = "Multiple actor-registry records"]_vars

\* A surplus name record is warned of, and nothing but one is.
SurplusNameRecordsAreWarnedOf ==
    lifecycle = "loaded" =>
        (HasSurplusRecord(cosave, PresetNameIndexMapTypeID) <=> Logged("Multiple preset-name-index-map records"))


\* The tables RevertState is to reset are reset.
TablesAreReset(container, registry) ==
    /\ registry = << >>
    /\ container.femalePresetIndexByName = << >>
    /\ container.malePresetIndexByName = << >>
    /\ container.nextFemalePresetIndex = 0
    /\ container.nextMalePresetIndex = 0

\* The name maps and counters of two containers are the same.
SameNamesAndCounters(container, other) ==
    /\ container.femalePresetIndexByName = other.femalePresetIndexByName
    /\ container.malePresetIndexByName = other.malePresetIndexByName
    /\ container.nextFemalePresetIndex = other.nextFemalePresetIndex
    /\ container.nextMalePresetIndex = other.nextMalePresetIndex

\* The registry holds the entities of the saved one, each with the preset
\* index it had.
SameActorsAndIndexes(registry, saved) ==
    /\ DOMAIN registry = DOMAIN saved
    /\ \A formID \in DOMAIN registry : PresetIndexOf(registry[formID]) = PresetIndexOf(saved[formID])

\* C16: RevertState leaves the registry without entity, both name maps empty
\* and both counters 0, and the load that follows it of a save written in
\* full leaves exactly the tables that were saved.
C16_RevertThenLoadYieldsTheSavedTables ==
    [][/\ lifecycle' = "reverted" => TablesAreReset(presetContainer', stateForActor')
       /\ lifecycle = "reverted" /\ lifecycle' = "loaded" /\ atSave.complete =>
            /\ SameActorsAndIndexes(stateForActor', atSave.registry)
            /\ SameNamesAndCounters(presetContainer', atSave.container)]_vars

\* What holds of it: RevertState resets the tables whatever they held, ...
RevertStateResetsTheTables ==
    [][lifecycle' = "reverted" => TablesAreReset(presetContainer', stateForActor')]_vars

\* ... the load that follows leaves what the load into tables never used
\* would, so nothing of before the revert is left over, ...
LoadAfterRevertIsLoadIntoUnusedTables ==
    [][lifecycle = "reverted" /\ lifecycle' = "loaded" =>
        \E fill \in GarbageBytes :
            LET loaded == LoadStateTables(FreshBuffer(fill), cosave, EmptyContainer, << >>)
            IN  /\ stateForActor' = loaded.registry
                /\ SameNamesAndCounters(presetContainer', loaded.container)]_vars

\* ... and it leaves the saved tables when no saved name is the empty one.
RevertThenLoadYieldsSavedTablesOfNonEmptyNames ==
    [][/\ lifecycle = "reverted" /\ lifecycle' = "loaded" /\ atSave.complete
       /\ EmptyName \notin DOMAIN atSave.container.femalePresetIndexByName
       /\ EmptyName \notin DOMAIN atSave.container.malePresetIndexByName
       => /\ SameActorsAndIndexes(stateForActor', atSave.registry)
          /\ SameNamesAndCounters(presetContainer', atSave.container)]_vars


\* The bits of a packed state below the preset index: the guard and the
\* spare bits.
BitsBelowPresetIndex(value) == value % PresetIndexShift

\* C17: a call of AssignPresetToActor, by a plugin, a script or a listener,
\* to assign or to unassign, leaves every entity's guard bit and spare bits
\* as they were and removes no entity; an entity it adds has the guard
\* clear.
C17_AssignmentKeepsTheGuardBit ==
    [][apiCalls' # apiCalls \/ listenerCalls' # listenerCalls =>
        /\ DOMAIN stateForActor \subseteq DOMAIN stateForActor'
        /\ \A formID \in DOMAIN stateForActor' :
              IF formID \in DOMAIN stateForActor
              THEN BitsBelowPresetIndex(stateForActor'[formID]) = BitsBelowPresetIndex(stateForActor[formID])
              ELSE BitsBelowPresetIndex(stateForActor'[formID]) = 0]_vars

\* A listener has, during the fan-out for an entity, assigned that entity
\* another preset: the index is the new one and the guard is still set.
C17_Witness ==
    \E thread \in Threads :
        /\ Len(callStack[thread]) = 2
        /\ callStack[thread][1].pc = "deliver"
        /\ callStack[thread][1].inListener
        /\ callStack[thread][2].pc = "send"
        /\ callStack[thread][2].actor = callStack[thread][1].actor
        /\ callStack[thread][2].capture.flags = NoFlags
        /\ callStack[thread][2].capture.presetName # callStack[thread][1].capture.presetName
        /\ PresetIndexOf(stateForActor[callStack[thread][1].actor]) = callStack[thread][2].capture.presetName + 1
        /\ EventsAreBeingSent(stateForActor[callStack[thread][1].actor])


\* Another thread than `thread` is in the fan-out for the entity.
OtherThreadDelivers(thread, formID) ==
    \E other \in Threads \ { thread } :
        \E i \in 1..Len(callStack[other]) :
            callStack[other][i].actor = formID /\ callStack[other][i].pc = "deliver"

\* C18: the visits of one entity's packed state by different threads lose
\* nothing of each other. A step that is no call of AssignPresetToActor (so
\* every guard test-and-set and every guard clear) leaves each entity's
\* preset index as it was; and an assignment made by one thread while
\* another is in the fan-out for the entity stores its index and leaves the
\* guard set.
C18_IndexAndGuardUpdatesDoNotClobber ==
    [][/\ apiCalls' = apiCalls /\ listenerCalls' = listenerCalls =>
            \A formID \in DOMAIN stateForActor' :
                PresetIndexOf(stateForActor'[formID]) =
                    IF formID \in DOMAIN stateForActor THEN PresetIndexOf(stateForActor[formID]) ELSE 0
       /\ \A thread \in Threads, formID \in LoadedActors :
            /\ apiCalls' # apiCalls
            /\ OtherThreadDelivers(thread, formID)
            /\ callStack[thread] = << >>
            /\ Len(callStack'[thread]) = 1
            /\ callStack'[thread][1].actor = formID
            /\ callStack'[thread][1].capture.flags = NoFlags
            => /\ PresetIndexOf(stateForActor'[formID]) = callStack'[thread][1].capture.presetName + 1
               /\ EventsAreBeingSent(stateForActor'[formID])]_vars

\* While one thread is in the fan-out for an entity, another has assigned
\* the entity another preset and has yet to send its notification: the
\* state holds the new index and the guard the first thread set.
C18_Witness ==
    \E thread \in Threads, formID \in LoadedActors :
        /\ OtherThreadDelivers(thread, formID)
        /\ Len(callStack[thread]) = 1
        /\ callStack[thread][1].actor = formID
        /\ callStack[thread][1].pc = "send"
        /\ callStack[thread][1].capture.flags = NoFlags
        /\ PresetIndexOf(stateForActor[formID]) = callStack[thread][1].capture.presetName + 1
        /\ \A other \in Threads \ { thread } :
              callStack[other] # << >> =>
                  callStack[other][1].capture.presetName # callStack[thread][1].capture.presetName
        /\ EventsAreBeingSent(stateForActor[formID])


\* ------------------------------------------------------------------------
\* The index allocation run by several threads
\* ------------------------------------------------------------------------

\* femalePresetIndexByName and malePresetIndexByName are
\* boost::unordered_flat_map, the counters are plain integers, and the
\* allocation takes no lock: its statements are steps of their own, and the
\* increment of the counter is a load and a store.

\* How many allocations a thread makes.
MaxAllocationCalls == 1

AllocationNames == { << 65 >>, << 66 >> }

\* The tables the allocations start from: empty, or with a name already in
\* the female table.
AllocationContainers == { EmptyContainer, ContainerOf((<< 67 >> :> 0), << >>) }

\* The category a thread is working on: the actor's sex, then the other.
AllocationCategory(local) == IF local.otherSex THEN ~local.isFemale ELSE local.isFemale

\* presetIndexMap.emplace(presetName, nextPresetIndex.value)
WithEmplacedName(container, isFemale, presetName) ==
    IF presetName \in DOMAIN IndexByName(container, isFemale) THEN container
    ELSE IF isFemale
    THEN [container EXCEPT !.femalePresetIndexByName = Assign(@, presetName, container.nextFemalePresetIndex)]
    ELSE [container EXCEPT !.malePresetIndexByName = Assign(@, presetName, container.nextMalePresetIndex)]

\* The store of ++nextPresetIndex.value and the resize of the dense table to
\* the value stored.
WithStoredNextPresetIndex(container, isFemale, value) ==
    IF isFemale
    THEN [container EXCEPT !.nextFemalePresetIndex = value,
                           !.allFemalePresetsByIndex = Resize(@, value, AbsentPreset)]
    ELSE [container EXCEPT !.nextMalePresetIndex = value,
                           !.allMalePresetsByIndex = Resize(@, value, AbsentPreset)]

AllocationInit ==
    /\ presetContainer \in AllocationContainers
    /\ stateForActor = << >>
    /\ haveMigratedStorageUtilPresetAssignments = FALSE
    /\ lifecycle = "loaded"
    /\ cosave = << >>
    /\ atSave = [container |-> EmptyContainer, registry |-> << >>, complete |-> FALSE]
    /\ saveLog = NothingSaved
    /\ loadLog = << >>
    /\ allocation = NoAllocation
    /\ readinessIdle
    /\ lookup = NoLookup
    /\ restarts = 0
    /\ saves = 0
    /\ migration = NoMigration
    /\ dispatchIdle

allocationFrame ==
    << stateForActor, haveMigratedStorageUtilPresetAssignments, cosave, lifecycle, atSave, restarts, saves, migration, saveLog, loadLog, readinessVars, lookup >>

\* A thread comes to the allocation for an entry: presetName and the
\* category are chosen.
BeginAllocation ==
    /\ \E thread \in Threads, presetName \in AllocationNames, isFemale \in BOOLEAN :
         /\ allocation.thread[thread].pc = "idle"
         /\ allocation.thread[thread].calls < MaxAllocationCalls
         /\ allocation' =
              [thread |-> [allocation.thread EXCEPT ![thread] =
                              [pc |-> "emplace", presetName |-> presetName, isFemale |-> isFemale,
                               otherSex |-> FALSE, inserted |-> FALSE, loaded |-> 0,
                               calls |-> allocation.thread[thread].calls + 1]],
               before |-> IF \A other \in Threads : allocation.thread[other].pc = "idle"
                          THEN presetContainer ELSE allocation.before]
    /\ UNCHANGED presetContainer
    /\ UNCHANGED allocationFrame
    /\ UNCHANGED dispatchVars

\* presetIndexMap.emplace(presetName, nextPresetIndex.value), for the
\* actor's sex or for the other.
EmplaceName ==
    /\ \E thread \in Threads :
         LET local == allocation.thread[thread]
             inserted == local.presetName \notin DOMAIN IndexByName(presetContainer, AllocationCategory(local))
         IN  /\ local.pc = "emplace"
             /\ presetContainer' = WithEmplacedName(presetContainer, AllocationCategory(local), local.presetName)
             /\ allocation' = [allocation EXCEPT
                                  !.thread[thread].pc = IF inserted THEN "load" ELSE "done",
                                  !.thread[thread].inserted = inserted]
    /\ UNCHANGED allocationFrame
    /\ UNCHANGED dispatchVars

\* ++nextPresetIndex.value: the load.
LoadNextPresetIndex ==
    /\ \E thread \in Threads :
         LET local == allocation.thread[thread]
         IN  /\ local.pc = "load"
             /\ allocation' = [allocation EXCEPT
                                  !.thread[thread].pc = "store",
                                  !.thread[thread].loaded = NextPresetIndex(presetContainer, AllocationCategory(local))]
    /\ UNCHANGED presetContainer
    /\ UNCHANGED allocationFrame
    /\ UNCHANGED dispatchVars

\* ++nextPresetIndex.value: the store, and the resize; the other sex's table
\* is next when this was the actor's own.
StoreNextPresetIndex ==
    /\ \E thread \in Threads :
         LET local == allocation.thread[thread]
         IN  /\ local.pc = "store"
             /\ presetContainer' = WithStoredNextPresetIndex(presetContainer, AllocationCategory(local), local.loaded + 1)
             /\ allocation' = [allocation EXCEPT
                                  !.thread[thread].pc = IF local.otherSex THEN "done" ELSE "emplace",
                                  !.thread[thread].otherSex = TRUE]
    /\ UNCHANGED allocationFrame
    /\ UNCHANGED dispatchVars

\* The thread leaves the allocation.
EndAllocation ==
    /\ \E thread \in Threads :
         /\ allocation.thread[thread].pc = "done"
         /\ allocation' = [allocation EXCEPT !.thread[thread].pc = "idle"]
    /\ UNCHANGED presetContainer
    /\ UNCHANGED allocationFrame
    /\ UNCHANGED dispatchVars

AllocationNext ==
    \/ BeginAllocation
    \/ EmplaceName
    \/ LoadNextPresetIndex
    \/ StoreNextPresetIndex
    \/ EndAllocation

AllocationSpec == AllocationInit /\ [][AllocationNext]_vars


\* Both threads have made their allocation, for names new to one category.
BothAllocatedNewNames(isFemale) ==
    \A thread \in Threads :
        /\ allocation.thread[thread].pc = "done"
        /\ allocation.thread[thread].isFemale = isFemale
        /\ allocation.thread[thread].presetName \notin DOMAIN IndexByName(allocation.before, isFemale)

BothRequestedNamesHaveAnIndex ==
    \A isFemale \in BOOLEAN :
        BothAllocatedNewNames(isFemale) =>
            /\ \A thread \in Threads : allocation.thread[thread].presetName \in DOMAIN IndexByName(presetContainer, isFemale)
            /\ allocation.thread["t1"].presetName = allocation.thread["t2"].presetName =>
                  NextPresetIndex(presetContainer, isFemale) - NextPresetIndex(allocation.before, isFemale) = 1


\* ------------------------------------------------------------------------
\* Requests for a plugin interface and the readiness events
\* ------------------------------------------------------------------------

\* How many requests are made, and how many events a listener receives
\* during one request at most.
MaxRegistrationCalls == 2
MaxEventsDuringCall == 4

\* PluginAPIVersion: Invalid, v1 (which is Latest) and a version after it.
InvalidVersion == 0
LatestVersion == 1
RequestedVersions == { InvalidVersion, LatestVersion, LatestVersion + 1 }

\* A check of the version that lets every version but Invalid pass, for
\* sensitivity runs.
RequestOfAnyVersionIsValid(dataLenSuffices, version, listener) ==
    /\ dataLenSuffices
    /\ version # InvalidVersion
    /\ listener # NoReadinessListener

\* The early returns of PluginInterfaceMessageHandler: a message too short,
\* a version that is Invalid or after Latest, no listener.
RequestIsValid(dataLenSuffices, version, listener) ==
    /\ dataLenSuffices
    /\ version # InvalidVersion
    /\ version <= LatestVersion
    /\ listener # NoReadinessListener

\* A replay in the wrong order, for sensitivity runs.
EventsReplayedInReverse(ready) ==
    IF ready THEN << "OBodyIsReady", "OBodyIsBecomingReady" >> ELSE << >>

\* if (obody.readyForPluginAPIUsage) { readinessListener.OBodyIsBecomingReady();
\* readinessListener.OBodyIsReady(); }: the events the listener is sent.
EventsReplayed(ready) ==
    IF ready THEN << "OBodyIsBecomingReady", "OBodyIsReady" >> ELSE << >>

\* OBody::AttachEventListener(IOBodyReadinessEventListener&): the listener
\* is added to the list unless it is in it.
AttachReadinessListener(listeners, listener) ==
    IF \E i \in 1..Len(listeners) : listeners[i] = listener THEN listeners
    ELSE Append(listeners, listener)

\* A fan-out of `event` to the readiness listeners while a request is
\* between its attach and its replay: the request's listener is among them.
DuringCall(call, event) ==
    IF call.pc = "attached"
    THEN [call EXCEPT !.changed = TRUE, !.received = Append(@, event)]
    ELSE call

\* A listener is called with `event`: what it has received, and whether it
\* has been called while the flag was set.
WithReceived(fanOut, listener, event, ready) ==
    [fanOut EXCEPT !.received[listener] = Append(@, event), !.sawReady[listener] = @ \/ ready]

\* The replay of main.cpp:79-82 as the listener sees it.
WithReplayed(fanOut, listener, ready) ==
    IF ready
    THEN WithReceived(WithReceived(fanOut, listener, "OBodyIsBecomingReady", TRUE), listener, "OBodyIsReady", TRUE)
    ELSE fanOut

\* A fan-out of `event` begins with the first listener of the list, if there
\* is one. What the listeners have received is counted from the beginning
\* of the transition out of Unready.
BeginReadinessFanOut(fanOut, listeners, event) ==
    [event |-> IF listeners = << >> THEN "" ELSE event,
     next |-> IF listeners = << >> THEN 0 ELSE 1,
     atBegin |-> IF event = "OBodyIsBecomingReady" THEN listeners ELSE fanOut.atBegin,
     received |-> IF event = "OBodyIsBecomingReady" THEN NoReadinessFanOut.received ELSE fanOut.received,
     sawReady |-> IF event = "OBodyIsBecomingReady" THEN NoReadinessFanOut.sawReady ELSE fanOut.sawReady]

\* The fan-out moves on to the next listener, or ends after the last one.
AdvanceReadinessFanOut(fanOut, listeners) ==
    IF fanOut.next = Len(listeners)
    THEN [fanOut EXCEPT !.event = "", !.next = 0]
    ELSE [fanOut EXCEPT !.next = @ + 1]

ReadinessInit ==
    /\ tablesInit
    /\ cosave = << >>
    /\ atSave = [container |-> EmptyContainer, registry |-> << >>, complete |-> FALSE]
    /\ saveLog = NothingSaved
    /\ loadLog = << >>
    /\ allocation = NoAllocation
    /\ readinessIdle
    /\ lookup = NoLookup
    /\ restarts = 0
    /\ saves = 0
    /\ migration = NoMigration
    /\ dispatchIdle

readinessFrame ==
    << presetContainer, stateForActor, haveMigratedStorageUtilPresetAssignments, cosave, lifecycle, atSave, restarts, saves, migration, saveLog, loadLog, allocation, lookup >>

\* PluginInterfaceMessageHandler up to the lock_guard: the checks of the
\* message, the new PluginInterface written through the request and the
\* attach of the listener, which waits for a fan-out to end.
RequestPluginInterface ==
    /\ registrationCall.pc \in { "none", "returned" }
    /\ registrationCall.calls < MaxRegistrationCalls
    /\ readinessFanOut.event = ""
    /\ \E dataLenSuffices \in BOOLEAN, version \in RequestedVersions, listener \in ReadinessListeners \cup { NoReadinessListener } :
         IF RequestIsValid(dataLenSuffices, version, listener)
         THEN /\ readinessEventListeners' = AttachReadinessListener(readinessEventListeners, listener)
              /\ registrationCall' = [pc |-> "attached", listener |-> listener, valid |-> TRUE,
                                      wasReady |-> readyForPluginAPIUsage, changed |-> FALSE,
                                      received |-> << >>, calls |-> registrationCall.calls + 1,
                                      dataLenSuffices |-> dataLenSuffices, version |-> version,
                                      pluginInterface |-> TRUE]
         ELSE /\ registrationCall' = [pc |-> "returned", listener |-> listener, valid |-> FALSE,
                                      wasReady |-> readyForPluginAPIUsage, changed |-> FALSE,
                                      received |-> << >>, calls |-> registrationCall.calls + 1,
                                      dataLenSuffices |-> dataLenSuffices, version |-> version,
                                      pluginInterface |-> FALSE]
              /\ UNCHANGED readinessEventListeners
    /\ UNCHANGED << readyForPluginAPIUsage, readinessPhase, readinessFanOut, readinessListenerLock >>
    /\ UNCHANGED readinessFrame
    /\ UNCHANGED dispatchVars

\* PluginInterfaceMessageHandler from the lock_guard to its return: the
\* replay to the listener when the plugin is ready.
ReplayReadiness ==
    /\ registrationCall.pc = "attached"
    /\ readinessFanOut.event = ""
    /\ registrationCall' = [registrationCall EXCEPT
                               !.pc = "returned",
                               !.received = @ \o EventsReplayed(readyForPluginAPIUsage)]
    /\ readinessFanOut' = WithReplayed(readinessFanOut, registrationCall.listener, readyForPluginAPIUsage)
    /\ UNCHANGED << readyForPluginAPIUsage, readinessEventListeners, readinessPhase, readinessListenerLock >>
    /\ UNCHANGED readinessFrame
    /\ UNCHANGED dispatchVars

\* A readiness transition: the phase moves on, the flag is set on entering
\* Ready and cleared on leaving it, and the fan-out of `event` to the
\* listeners begins.
ReadinessTransition(from, to, ready, event) ==
    /\ readinessPhase = from
    /\ readinessFanOut.event = ""
    /\ Len(registrationCall.received) < MaxEventsDuringCall
    /\ readinessPhase' = to
    /\ readyForPluginAPIUsage' = ready
    /\ registrationCall' = DuringCall(registrationCall, event)
    /\ readinessFanOut' = BeginReadinessFanOut(readinessFanOut, readinessEventListeners, event)
    /\ UNCHANGED << readinessEventListeners, readinessListenerLock >>
    /\ UNCHANGED readinessFrame
    /\ UNCHANGED dispatchVars

BecomingReadyForPluginAPIUsage ==
    ReadinessTransition("Unready", "BecomingReady", FALSE, "OBodyIsBecomingReady")

ReadyForPluginAPIUsage ==
    ReadinessTransition("BecomingReady", "Ready", TRUE, "OBodyIsReady")

BecomingUnreadyForPluginAPIUsage ==
    ReadinessTransition("Ready", "BecomingUnready", FALSE, "OBodyIsBecomingUnready")

NoLongerReadyForPluginAPIUsage ==
    ReadinessTransition("BecomingUnready", "Unready", FALSE, "OBodyIsNoLongerReady")

\* The fan-out calls the next listener of the list with the event.
CallReadinessListener ==
    /\ readinessFanOut.event # ""
    /\ readinessFanOut' = AdvanceReadinessFanOut(
                              WithReceived(readinessFanOut, readinessEventListeners[readinessFanOut.next],
                                           readinessFanOut.event, readyForPluginAPIUsage),
                              readinessEventListeners)
    /\ UNCHANGED << readyForPluginAPIUsage, readinessEventListeners, readinessPhase, registrationCall, readinessListenerLock >>
    /\ UNCHANGED readinessFrame
    /\ UNCHANGED dispatchVars

ReadinessNext ==
    \/ RequestPluginInterface
    \/ ReplayReadiness
    \/ BecomingReadyForPluginAPIUsage
    \/ ReadyForPluginAPIUsage
    \/ BecomingUnreadyForPluginAPIUsage
    \/ NoLongerReadyForPluginAPIUsage
    \/ CallReadinessListener

ReadinessSpec == ReadinessInit /\ [][ReadinessNext]_vars

\* C20: a valid request made while the plugin is ready has, when it
\* returns, sent its listener OBodyIsBecomingReady and then OBodyIsReady;
\* one made while the plugin is not ready has sent its listener nothing. No
\* readiness transition ran while the request was being served.
C20_ReadyListenerIsReplayedOnRegistration ==
    registrationCall.pc = "returned" /\ registrationCall.valid /\ ~registrationCall.changed =>
        registrationCall.received =
            IF registrationCall.wasReady THEN << "OBodyIsBecomingReady", "OBodyIsReady" >> ELSE << >>

\* A request that was made while the plugin was ready has returned, its
\* listener attached and the two events sent to it.
C20_Witness ==
    /\ registrationCall.pc = "returned"
    /\ registrationCall.valid
    /\ registrationCall.wasReady
    /\ ~registrationCall.changed
    /\ \E i \in 1..Len(readinessEventListeners) : readinessEventListeners[i] = registrationCall.listener
    /\ registrationCall.received = << "OBodyIsBecomingReady", "OBodyIsReady" >>

\* The other case: a request made while the plugin was not ready has
\* returned with its listener attached and nothing sent to it.
RegisteredWhileNotReady ==
    /\ registrationCall.pc = "returned"
    /\ registrationCall.valid
    /\ ~registrationCall.wasReady
    /\ ~registrationCall.changed
    /\ \E i \in 1..Len(readinessEventListeners) : readinessEventListeners[i] = registrationCall.listener
    /\ registrationCall.received = << >>

\* A request that is refused attaches no listener and sends no event.
RefusedRequestSendsNothing ==
    registrationCall.pc = "returned" /\ ~registrationCall.valid => registrationCall.received = << >>

\* ------------------------------------------------------------------------
\* The transition from unready to ready

IsRegistered(listener) ==
    \E i \in 1..Len(readinessEventListeners) : readinessEventListeners[i] = listener

HasReceived(listener, event) ==
    \E i \in 1..Len(readinessFanOut.received[listener]) : readinessFanOut.received[listener][i] = event

\* The plugin is between the beginning of BecomingReadyForPluginAPIUsage and
\* the end of the fan-out of ReadyForPluginAPIUsage.
InTransitionToReady ==
    readinessPhase = "BecomingReady" \/ readinessFanOut.event = "OBodyIsReady"

\* C21: in a transition from unready to ready, when a listener has received
\* OBodyIsReady or has been called with the readiness flag set, every
\* registered listener has received the OBodyIsBecomingReady of that
\* transition.
C21_ReadyAfterEveryListenerWasBecomingReady ==
    InTransitionToReady =>
        \A listener \in ReadinessListeners :
            HasReceived(listener, "OBodyIsReady") \/ readinessFanOut.sawReady[listener] =>
                \A other \in ReadinessListeners :
                    IsRegistered(other) => HasReceived(other, "OBodyIsBecomingReady")

\* The same for the listeners that were registered when the transition
\* began: each of them has received OBodyIsBecomingReady before any listener
\* receives OBodyIsReady or sees the flag set.
ReadyAfterEveryListenerOfTheBeginningWasBecomingReady ==
    InTransitionToReady =>
        \A listener \in ReadinessListeners :
            HasReceived(listener, "OBodyIsReady") \/ readinessFanOut.sawReady[listener] =>
                \A i \in 1..Len(readinessFanOut.atBegin) :
                    HasReceived(readinessFanOut.atBegin[i], "OBodyIsBecomingReady")

\* While the plugin is becoming ready no listener has received OBodyIsReady
\* or seen the flag set.
NoListenerIsReadyWhileBecomingReady ==
    readinessPhase = "BecomingReady" =>
        \A listener \in ReadinessListeners :
            ~HasReceived(listener, "OBodyIsReady") /\ ~readinessFanOut.sawReady[listener]

\* The fan-out of OBodyIsReady has called the first of two listeners that
\* were both registered when the transition began.
TwoListenersOfTheBeginningAreBecomingReady ==
    /\ readinessFanOut.event = "OBodyIsReady"
    /\ readinessFanOut.next = 2
    /\ Len(readinessFanOut.atBegin) = 2
    /\ HasReceived(readinessFanOut.atBegin[1], "OBodyIsReady")

\* ------------------------------------------------------------------------
\* Requests that are declined

\* The request that `call` serves has enough bytes, names version 1 and
\* supplies a listener.
PassesTheThreeChecks(call) ==
    call.dataLenSuffices /\ call.version = 1 /\ call.listener \in ReadinessListeners

\* C22: a request that is too short, names the invalid version or a version
\* after the latest, or supplies no listener returns at once: nothing is
\* written through request->pluginInterface, the list of listeners is as it
\* was and no listener is called. A request that passes the three checks
\* has its listener in the list and a plugin interface written.
C22_DeclinedRequestHasNoEffect ==
    [][registrationCall'.calls = registrationCall.calls + 1 =>
          IF PassesTheThreeChecks(registrationCall')
          THEN /\ registrationCall'.pluginInterface
               /\ \E i \in 1..Len(readinessEventListeners') : readinessEventListeners'[i] = registrationCall'.listener
          ELSE /\ registrationCall'.pc = "returned"
               /\ ~registrationCall'.pluginInterface
               /\ registrationCall'.received = << >>
               /\ UNCHANGED << readinessEventListeners, readinessFanOut, readyForPluginAPIUsage, readinessPhase >>]_vars

\* A request of a version after the latest was declined while the plugin was
\* ready: its listener is not in the list and has received nothing.
C22_Witness ==
    /\ registrationCall.pc = "returned"
    /\ registrationCall.dataLenSuffices
    /\ registrationCall.version > LatestVersion
    /\ registrationCall.listener \in ReadinessListeners
    /\ registrationCall.wasReady
    /\ ~registrationCall.pluginInterface
    /\ ~IsRegistered(registrationCall.listener)
    /\ readinessFanOut.received[registrationCall.listener] = << >>

\* Requests are declined for each of the three reasons.
RequestsAreDeclinedForEachReason ==
    /\ registrationCall.pc = "returned"
    /\ ~registrationCall.pluginInterface
    /\ \/ ~registrationCall.dataLenSuffices /\ registrationCall.version = LatestVersion /\ registrationCall.listener \in ReadinessListeners
       \/ registrationCall.dataLenSuffices /\ registrationCall.version = InvalidVersion /\ registrationCall.listener \in ReadinessListeners
       \/ registrationCall.dataLenSuffices /\ registrationCall.version = LatestVersion /\ registrationCall.listener = NoReadinessListener

\* ------------------------------------------------------------------------
\* Lookups of an actor's preset
\* ------------------------------------------------------------------------

\* A null Preset*, std::nullopt, the empty name view.
NoPreset == -1

\* Registry::GetPresetIndexForActor: cvisit reads the entry if there is one.
GetPresetIndexForActor(registry, formID) ==
    IF formID \in DOMAIN registry THEN PresetIndexOf(registry[formID]) ELSE 0

\* AssignedPresetIndex::GetPreset: the entry of the dense table at the
\* sparse index, no preset when the index is out of range or the entry is
\* the absent one.
GetPreset(container, assignedIndex, isFemale) ==
    LET presetsByIndex == PresetsByIndex(container, isFemale)
    IN  IF assignedIndex + 1 \in 1..Len(presetsByIndex) /\ presetsByIndex[assignedIndex + 1] # AbsentPreset
        THEN presetsByIndex[assignedIndex + 1]
        ELSE NoPreset

\* A lookup that takes the actor's index for the sparse index, for
\* sensitivity runs.
GetPresetAtActorPresetIndex(registry, container, formID, isFemale) ==
    GetPreset(container, GetPresetIndexForActor(registry, formID), isFemale)

\* Registry::GetPresetForActor and PluginInterface::GetPresetAssignedToActor:
\* the preset of the actor, given by its place in the preset set.
GetPresetForActor(registry, container, formID, isFemale) ==
    IF GetPresetIndexForActor(registry, formID) # 0
    THEN GetPreset(container, GetPresetIndexForActor(registry, formID) - 1, isFemale)
    ELSE NoPreset

\* The actors that are looked up: two that may have an entry, one that has
\* none.
LookupFormIDs == { 4660, 4661, 4662 }

\* The registries the lookups find: actors with no preset, with a preset
\* that is loaded, with one that is absent and with one past the table.
LookupRegistries ==
    { << >>,
      (4660 :> PackActorState(0, 0, TRUE)),
      (4660 :> PackActorState(1, 0, FALSE) @@ 4661 :> PackActorState(2, 5, FALSE)),
      (4660 :> PackActorState(2, 0, TRUE) @@ 4661 :> PackActorState(3, 0, FALSE)) }

\* The preset set is loaded: the dense tables name, for each sparse index,
\* the place of the preset in allFemalePresets / allMalePresets.
WithLoadedPresets(container, female, male) ==
    [container EXCEPT !.allFemalePresetsByIndex = female, !.allMalePresetsByIndex = male]

\* Two female names and one male name have an index.
LookupNames ==
    EmplacePresetName(EmplacePresetName(EmplacePresetName(EmptyContainer, TRUE, << 65 >>), TRUE, << 66 >>), FALSE, << 65 >>)

\* The tables the lookups find: every name's preset is loaded, or some are
\* absent from the loaded preset set.
LookupContainers ==
    { EmptyContainer, LookupNames } \cup
    { WithLoadedPresets(LookupNames, female, male) :
        female \in { << 0, 1 >>, << 0, AbsentPreset >>, << AbsentPreset, 0 >> },
        male \in { << 0 >>, << AbsentPreset >> } }

\* The sparse indexes that are assigned: the first ones, one in the middle
\* of the range and the last one of the 20-bit width.
AssignedIndexes == { 0, 1, PresetIndexModulus \div 2 - 2, PresetIndexModulus - 1 }

LookupInit ==
    /\ presetContainer \in LookupContainers
    /\ stateForActor \in LookupRegistries
    /\ haveMigratedStorageUtilPresetAssignments = FALSE
    /\ lifecycle = "running"
    /\ cosave = << >>
    /\ atSave = [container |-> EmptyContainer, registry |-> << >>, complete |-> FALSE]
    /\ saveLog = NothingSaved
    /\ loadLog = << >>
    /\ allocation = NoAllocation
    /\ readinessIdle
    /\ lookup = NoLookup
    /\ restarts = 0
    /\ saves = 0
    /\ migration = NoMigration
    /\ dispatchIdle

lookupFrame ==
    << presetContainer, haveMigratedStorageUtilPresetAssignments, cosave, lifecycle, atSave, restarts, saves, migration, saveLog, loadLog, allocation, readinessVars >>

\* uint32_t Registry::GetPresetIndexForActor(RE::Actor*) const
LookupPresetIndexForActor ==
    /\ \E formID \in LookupFormIDs :
         lookup' = [op |-> "GetPresetIndexForActor", call |-> 0, formID |-> formID, isFemale |-> FALSE,
                    payload |-> NoLookup.payload,
                    result |-> GetPresetIndexForActor(stateForActor, formID),
                    before |-> EntryOf(stateForActor, formID)]
    /\ UNCHANGED stateForActor
    /\ UNCHANGED lookupFrame
    /\ UNCHANGED dispatchVars

\* Registry::GetPresetForActor / PluginInterface::GetPresetAssignedToActor
LookupPresetForActor ==
    /\ \E formID \in LookupFormIDs, isFemale \in BOOLEAN :
         lookup' = [op |-> "GetPresetForActor", call |-> 0, formID |-> formID, isFemale |-> isFemale,
                    payload |-> NoLookup.payload,
                    result |-> GetPresetForActor(stateForActor, presetContainer, formID, isFemale),
                    before |-> EntryOf(stateForActor, formID)]
    /\ UNCHANGED stateForActor
    /\ UNCHANGED lookupFrame
    /\ UNCHANGED dispatchVars

\* PluginInterface::AssignPresetToActor with DoNotApplyMorphs and the name
\* of a preset whose assignedIndex is `assignedIndex`, no listener attached.
AssignIndexToActor ==
    /\ \E formID \in LookupFormIDs, assignedIndex \in AssignedIndexes :
         /\ stateForActor' = AssignPresetToActor(stateForActor, formID, [unassign |-> FALSE, assignedIndex |-> assignedIndex], OtherPlugin).registry
         /\ lookup' = AssignPresetCall(0, stateForActor, formID, [unassign |-> FALSE, assignedIndex |-> assignedIndex])
    /\ UNCHANGED lookupFrame
    /\ UNCHANGED dispatchVars

LookupNext ==
    \/ LookupPresetIndexForActor
    \/ LookupPresetForActor
    \/ AssignIndexToActor

LookupSpec == LookupInit /\ [][LookupNext]_vars

\* The sparse index an actor's entry refers to names no loaded preset.
RefersToNoLoadedPreset(registry, container, formID, isFemale) ==
    LET presetsByIndex == PresetsByIndex(container, isFemale)
        actorPresetIndex == PresetIndexOf(registry[formID])
    IN  \/ actorPresetIndex > Len(presetsByIndex)
        \/ presetsByIndex[actorPresetIndex] = AbsentPreset

\* C23: the index of an actor without an entry is read as 0 and the lookup
\* leaves the actor without an entry; the preset of an actor whose index is
\* 0, or whose index refers to a preset that is not loaded, is read as none,
\* and the lookup leaves the registry as it was.
C23_LookupMissReturnsSentinel ==
    /\ lookup.op = "GetPresetIndexForActor" /\ lookup.formID \notin DOMAIN lookup.before =>
           lookup.result = 0 /\ lookup.formID \notin DOMAIN stateForActor
    /\ lookup.op = "GetPresetForActor" /\ lookup.formID \in DOMAIN lookup.before =>
           /\ PresetIndexOf(lookup.before[lookup.formID]) = 0 => lookup.result = NoPreset
           /\ /\ PresetIndexOf(lookup.before[lookup.formID]) # 0
              /\ RefersToNoLoadedPreset(lookup.before, presetContainer, lookup.formID, lookup.isFemale)
              => lookup.result = NoPreset
    /\ lookup.op \in { "GetPresetIndexForActor", "GetPresetForActor" } => EntryOf(stateForActor, lookup.formID) = lookup.before

\* The preset of an actor whose index refers to an absent entry, with a
\* loaded preset in the entry after it, was looked up.
C23_Witness ==
    /\ lookup.op = "GetPresetForActor"
    /\ lookup.isFemale
    /\ lookup.formID \in DOMAIN lookup.before
    /\ PresetIndexOf(lookup.before[lookup.formID]) = 1
    /\ presetContainer.allFemalePresetsByIndex = << AbsentPreset, 0 >>
    /\ lookup.result = NoPreset
    /\ EntryOf(stateForActor, lookup.formID) = lookup.before

\* The other misses happen: an actor without an entry, an actor with index 0.
LookupOfActorWithoutEntry ==
    lookup.op = "GetPresetIndexForActor" /\ lookup.formID \notin DOMAIN lookup.before /\ stateForActor # << >>

LookupOfActorWithoutPreset ==
    /\ lookup.op = "GetPresetForActor"
    /\ lookup.formID \in DOMAIN lookup.before
    /\ PresetIndexOf(lookup.before[lookup.formID]) = 0
    /\ presetContainer.allFemalePresetsByIndex = << 0, 1 >>

\* A lookup that hits returns the preset the dense table names.
LookupHitReturnsThePreset ==
    /\ lookup.op = "GetPresetForActor"
    /\ lookup.result # NoPreset
    => /\ lookup.formID \in DOMAIN lookup.before
       /\ lookup.result = PresetsByIndex(presetContainer, lookup.isFemale)[PresetIndexOf(lookup.before[lookup.formID])]

\* ------------------------------------------------------------------------
\* The width of an actor's preset index

\* C24: after the sparse index `index` of the 20-bit range is assigned to an
\* actor, the actor's index reads index + 1, which is not 0, and one less
\* than it is `index` again.
C24_EverySparseIndexCanBeAttached ==
    lookup.op = "AssignPresetToActor" /\ lookup.payload.assignedIndex \in 0..(PresetIndexModulus - 1) =>
        /\ GetPresetIndexForActor(stateForActor, lookup.formID) = lookup.payload.assignedIndex + 1
        /\ GetPresetIndexForActor(stateForActor, lookup.formID) # 0
        /\ GetPresetIndexForActor(stateForActor, lookup.formID) - 1 = lookup.payload.assignedIndex

\* The same for the sparse indexes below the last one of the range.
EverySparseIndexButTheLastCanBeAttached ==
    lookup.op = "AssignPresetToActor" /\ lookup.payload.assignedIndex \in 0..(PresetIndexModulus - 2) =>
        /\ GetPresetIndexForActor(stateForActor, lookup.formID) = lookup.payload.assignedIndex + 1
        /\ GetPresetIndexForActor(stateForActor, lookup.formID) # 0
        /\ GetPresetIndexForActor(stateForActor, lookup.formID) - 1 = lookup.payload.assignedIndex

\* An index in the middle of the range was assigned to an actor whose guard
\* bit is set.
IndexOfTheMiddleWasAssigned ==
    /\ lookup.op = "AssignPresetToActor"
    /\ lookup.payload.assignedIndex = PresetIndexModulus \div 2 - 2
    /\ lookup.formID \in DOMAIN lookup.before
    /\ EventsAreBeingSent(lookup.before[lookup.formID])
    /\ EventsAreBeingSent(stateForActor[lookup.formID])

\* ------------------------------------------------------------------------
\* Unassignment through the plugin API

\* The step is a call of PluginInterface::AssignPresetToActor with an empty
\* preset name, made while listeners are registered and no fan-out for the
\* actor is in progress.
IsUnassignmentCall ==
    /\ lookup'.call # lookup.call
    /\ lookup'.op = "AssignPresetToActor"
    /\ lookup'.payload.unassign
    /\ actorChangeEventListeners # << >>
    /\ ~IsRecursiveActorEvent(stateForActor, lookup'.formID)

\* The call sends one notification for the actor, on the thread it runs on:
\* an event flagged `flags` that carries the name of the preset of sparse
\* index `presetName`.
SendsOneNotification(formID, flags, presetName) ==
    \E thread \in Threads :
        /\ Len(callStack'[thread]) = Len(callStack[thread]) + 1
        /\ Top(callStack'[thread]).actor = formID
        /\ Top(callStack'[thread]).pc = "send"
        /\ Top(callStack'[thread]).capture.flags = flags
        /\ Top(callStack'[thread]).capture.presetName = presetName
        /\ \A other \in Threads \ { thread } : callStack'[other] = callStack[other]

\* C25: an unassignment through the plugin API, made while listeners are
\* registered and no fan-out for the actor is in progress, sends one event
\* flagged PresetWasUnassigned with the name of the preset the actor had, or
\* with the empty name when the actor had none; the call returns true and
\* the actor's index is 0 after it.
C25_UnassignmentSendsOneEvent ==
    [][IsUnassignmentCall =>
          /\ SendsOneNotification(lookup'.formID, PresetWasUnassigned,
                                  IF GetPresetIndexForActor(stateForActor, lookup'.formID) # 0
                                  THEN GetPresetIndexForActor(stateForActor, lookup'.formID) - 1
                                  ELSE NoPreset)
          /\ lookup'.result = 1
          /\ GetPresetIndexForActor(stateForActor', lookup'.formID) = 0]_vars

\* The same for an actor that has a preset: the event carries its name.
UnassignmentOfAPresetSendsOneEvent ==
    [][IsUnassignmentCall /\ GetPresetIndexForActor(stateForActor, lookup'.formID) # 0 =>
          /\ SendsOneNotification(lookup'.formID, PresetWasUnassigned,
                                  GetPresetIndexForActor(stateForActor, lookup'.formID) - 1)
          /\ lookup'.result = 1
          /\ GetPresetIndexForActor(stateForActor', lookup'.formID) = 0]_vars

\* An unassignment for an actor that has no preset sends nothing: it
\* returns true and leaves the registry and the threads as they were.
UnassignmentOfNoPresetSendsNothing ==
    [][IsUnassignmentCall /\ GetPresetIndexForActor(stateForActor, lookup'.formID) = 0 =>
          /\ lookup'.result = 1
          /\ UNCHANGED << stateForActor, callStack >>]_vars

\* Both cases happen: with listeners registered, the last call unassigned a
\* preset and its event is about to be sent, or it found no preset.
PresetWasUnassignedFromActor ==
    /\ lookup.op = "AssignPresetToActor"
    /\ lookup.payload.unassign
    /\ actorChangeEventListeners # << >>
    /\ lookup.formID \in DOMAIN lookup.before
    /\ PresetIndexOf(lookup.before[lookup.formID]) = 2
    /\ \E thread \in Threads :
          /\ callStack[thread] # << >>
          /\ Top(callStack[thread]).actor = lookup.formID
          /\ Top(callStack[thread]).pc = "send"
          /\ Top(callStack[thread]).capture.presetName = 1

NoPresetWasUnassignedFromActor ==
    /\ lookup.op = "AssignPresetToActor"
    /\ lookup.payload.unassign
    /\ actorChangeEventListeners # << >>
    /\ lookup.formID \in DOMAIN lookup.before
    /\ lookup.before[lookup.formID] = 0

\* ------------------------------------------------------------------------
\* The migration loop, entry by entry
\* ------------------------------------------------------------------------

\* How many entries of the legacy store the loop goes through.
MaxMigratedEntries == 4

\* The tables the loop starts from: unused ones, or those a load has left
\* with names in one category that the other does not have.
MigrationContainers ==
    { EmptyContainer,
      LookupNames,
      EmplacePresetName(EmptyContainer, FALSE, << 66 >>) }

MigrationInit ==
    /\ presetContainer \in MigrationContainers
    /\ stateForActor = << >>
    /\ haveMigratedStorageUtilPresetAssignments = FALSE
    /\ lifecycle = "loaded"
    /\ cosave = << >>
    /\ atSave = [container |-> EmptyContainer, registry |-> << >>, complete |-> FALSE]
    /\ saveLog = NothingSaved
    /\ loadLog = << >>
    /\ allocation = [NoAllocation EXCEPT !.before = presetContainer]
    /\ readinessIdle
    /\ lookup = NoLookup
    /\ restarts = 0
    /\ saves = 0
    /\ migration = [ran |-> TRUE, entries |-> << >>]
    /\ dispatchIdle

\* One iteration of the loop of
\* MigrateStorageUtilPresetAssignmentsOverToSKSECosave.
MigrateNextEntry ==
    /\ lifecycle = "loaded"
    /\ ~haveMigratedStorageUtilPresetAssignments
    /\ Len(migration.entries) < MaxMigratedEntries
    /\ \E entry \in LegacyEntries :
         LET migrated == MigrateLegacyEntry([container |-> presetContainer, registry |-> stateForActor], entry)
         IN  /\ presetContainer' = migrated.container
             /\ stateForActor' = migrated.registry
             /\ migration' = [migration EXCEPT !.entries = Append(@, entry)]
    /\ UNCHANGED << haveMigratedStorageUtilPresetAssignments, lifecycle, cosave, atSave, restarts, saves, saveLog, loadLog >>
    /\ UNCHANGED dispatchVars
    /\ UNCHANGED concurrentVars

\* The loop ends, the migration returns true and FixupAfterLoadingGame sets
\* the flag.
EndMigration ==
    /\ lifecycle = "loaded"
    /\ ~haveMigratedStorageUtilPresetAssignments
    /\ haveMigratedStorageUtilPresetAssignments' = TRUE
    /\ lifecycle' = "running"
    /\ UNCHANGED << presetContainer, stateForActor, migration, cosave, atSave, restarts, saves, saveLog, loadLog >>
    /\ UNCHANGED dispatchVars
    /\ UNCHANGED concurrentVars

MigrationNext ==
    \/ MigrateNextEntry
    \/ EndMigration

MigrationSpec == MigrationInit /\ [][MigrationNext]_vars

\* The category was empty when the loop began.
StartedEmpty(isFemale) ==
    /\ IndexByName(allocation.before, isFemale) = << >>
    /\ NextPresetIndex(allocation.before, isFemale) = 0

\* C26: in a category that was empty at the start, every step leaves the
\* names that had an index with it, gives a name that is new the number of
\* distinct names before it as its index (the k-th distinct name gets k,
\* whatever was requested again in between), and leaves the counter equal to
\* the number of distinct names in the map.
C26_DistinctNamesAreNumberedInOrder ==
    [][\A isFemale \in Categories :
          StartedEmpty(isFemale) =>
              LET was == IndexByName(presetContainer, isFemale)
                  is == IndexByName(presetContainer', isFemale)
              IN  /\ \A name \in DOMAIN was : name \in DOMAIN is /\ is[name] = was[name]
                  /\ \A name \in DOMAIN is \ DOMAIN was : is[name] = Cardinality(DOMAIN was)
                  /\ NextPresetIndex(presetContainer', isFemale) = Cardinality(DOMAIN is)]_vars

\* Female actors have asked for the name 65, for 65 again and then for 66:
\* the names have the indexes 0 and 1.
C26_Witness ==
    /\ StartedEmpty(TRUE)
    /\ Len(migration.entries) >= 3
    /\ \A i \in 1..3 : migration.entries[i].formID \in FemaleActors /\ ~migration.entries[i].valueIsNull
    /\ migration.entries[1].value = << 65 >>
    /\ migration.entries[2].value = << 65 >>
    /\ migration.entries[3].value = << 66 >>
    /\ presetContainer.femalePresetIndexByName[<< 65 >>] = 0
    /\ presetContainer.femalePresetIndexByName[<< 66 >>] = 1
    /\ presetContainer.nextFemalePresetIndex = 2

\* ------------------------------------------------------------------------
\* The two categories

\* The step is an iteration of the loop for an entry with a value and an
\* actor that is found.
AssignsLegacyPresetIndex ==
    /\ migration'.entries # migration.entries
    /\ ~Top(migration'.entries).valueIsNull
    /\ Top(migration'.entries).formID \in LoadedActors

\* The map, the counter and the dense table of a category.
CategoryOf(container, isFemale) ==
    << IndexByName(container, isFemale), NextPresetIndex(container, isFemale), PresetsByIndex(container, isFemale) >>

KnownNameIsNotTakenInByTheOtherSex ==
    /\ allocation.before = LookupNames
    /\ Len(migration.entries) = 1
    /\ migration.entries[1].formID \in FemaleActors
    /\ migration.entries[1].value = << 66 >>
    /\ ~migration.entries[1].valueIsNull
    /\ presetContainer = LookupNames


\* ------------------------------------------------------------------------
\* The dense tables over loads and reverts
\* ------------------------------------------------------------------------

\* The tables when the main menu is reached: no preset file was found, or
\* the names of the preset set have their indexes and the dense tables refer
\* to the presets.
SessionContainers ==
    { EmptyContainer, LookupNames, WithLoadedPresets(LookupNames, << 0, 1 >>, << 0 >>) }

\* A process that has loaded its preset set and has no cosave to load from:
\* the save was made before the plugin kept a cosave.
SessionInit ==
    /\ presetContainer \in SessionContainers
    /\ stateForActor = << >>
    /\ haveMigratedStorageUtilPresetAssignments = FALSE
    /\ lifecycle = "menu"
    /\ cosave = << >>
    /\ atSave = [container |-> EmptyContainer, registry |-> << >>, complete |-> FALSE]
    /\ saveLog = NothingSaved
    /\ loadLog = << >>
    /\ allocation = NoAllocation
    /\ readinessIdle
    /\ lookup = NoLookup
    /\ restarts = 0
    /\ saves = 0
    /\ migration = NoMigration
    /\ dispatchIdle

SessionNext ==
    \/ SaveState
    \/ RevertState
    \/ LoadState
    \/ SetStateUponStartOfNewGame
    \/ FixupAfterLoadingGame

SessionSpec == SessionInit /\ [][SessionNext]_vars

\* What an allocation does to the dense table of the category it allocates
\* in: as long as the counter, absent in the new slot, every old slot kept.
DenseTableFollowsAllocation(before, after, isFemale) ==
    LET old == PresetsByIndex(before, isFemale)
        new == PresetsByIndex(after, isFemale)
    IN  /\ Len(new) = NextPresetIndex(after, isFemale)
        /\ new[NextPresetIndex(before, isFemale) + 1] = AbsentPreset
        /\ \A slot \in 1..Len(old) : slot <= Len(new) /\ new[slot] = old[slot]

\* C28: after an index is allocated for a new name, in a state reached
\* through allocations, loads and reverts, the dense table of the category
\* is as long as the new counter, holds the absent entry in the new slot and
\* has kept every slot it had, with its content. Stated over every entry of
\* every migration run that a step carries out.
C28_DenseTableGrowsWithTheCounter ==
    [][ migration'.ran /\ lifecycle = "loaded" /\ lifecycle' = "running" =>
          LET start == [container |-> presetContainer, registry |-> stateForActor]
              entries == migration'.entries
          IN  \A i \in 1..Len(entries), isFemale \in BOOLEAN :
                LET before == TablesAfterEntries(start, entries, i - 1).container
                    after == TablesAfterEntries(start, entries, i).container
                IN  NextPresetIndex(after, isFemale) # NextPresetIndex(before, isFemale)
                      => DenseTableFollowsAllocation(before, after, isFemale)
      ]_vars

\* A migration run has allocated an index in tables that were reverted after
\* the preset set was loaded, and the dense table is shorter than it was.
DenseTableHasShrunk ==
    /\ migration.ran
    /\ lifecycle = "running"
    /\ \E isFemale \in BOOLEAN :
         /\ NextPresetIndex(presetContainer, isFemale) > 0
         /\ Len(PresetsByIndex(presetContainer, isFemale)) < Len(PresetsByIndex(LookupNames, isFemale))

\* A migration run has allocated an index, and the slot of that index refers
\* to a preset of the set that was loaded before the revert.
NewSlotRefersToAPreset ==
    /\ migration.ran
    /\ lifecycle = "running"
    /\ NextPresetIndex(presetContainer, TRUE) = 1
    /\ PresetsByIndex(presetContainer, TRUE) = << 0 >>


\* ------------------------------------------------------------------------
\* The counters over a session
\* ------------------------------------------------------------------------

\* A step of the running process: the process does not end in it.
StepOfTheSession == restarts' = restarts

\* C29: within a session the next-index counter of a category never
\* decreases: after each allocation, save, load and revert its value is
\* greater than or equal to its value before.
C29_CounterNeverDecreases ==
    [][ StepOfTheSession =>
          \A isFemale \in BOOLEAN :
              NextPresetIndex(presetContainer', isFemale) >= NextPresetIndex(presetContainer, isFemale)
      ]_vars

\* C29, amended: a revert sets the counter of each category to 0, a save
\* leaves it as it is, and after every other operation of the session it is
\* greater than or equal to its value before.
C29_CounterDecreasesOnlyAtRevert ==
    [][ StepOfTheSession =>
          \A isFemale \in BOOLEAN :
              LET before == NextPresetIndex(presetContainer, isFemale)
                  after == NextPresetIndex(presetContainer', isFemale)
              IN  IF lifecycle' = "reverted" THEN after = 0
                  ELSE IF saves' # saves THEN after = before
                  ELSE after >= before
      ]_vars

\* The tables were saved with a counter above 0 and have been reverted since,
\* in the same process: the counter is 0.
C29_Witness ==
    /\ lifecycle = "reverted"
    /\ restarts = 0
    /\ saves > 0
    /\ atSave.container.nextFemalePresetIndex > 0
    /\ presetContainer.nextFemalePresetIndex = 0

\* The load after the revert has set the counter to the value of the save.
CounterIsLoadedAfterRevert ==
    /\ lifecycle = "loaded"
    /\ restarts = 0
    /\ saves > 0
    /\ atSave.container.nextFemalePresetIndex > 0
    /\ presetContainer.nextFemalePresetIndex = atSave.container.nextFemalePresetIndex


\* ------------------------------------------------------------------------
\* The layout of the preset-name record
\* ------------------------------------------------------------------------

\* The offset in the record of the byte the writer puts next.
StreamOffset(w) == Len(w.sink.data) + w.offset

\* A field of `length` bytes that the writer w has just put.
FieldPutBy(w, kind, back, length, content) ==
    [kind |-> kind, at |-> StreamOffset(w) - back, length |-> length, content |-> content]

\* The fields of the entries, in the order the loop over indexByNameMap puts
\* them: for each name its nameLength, its index and its bytes.
RECURSIVE PresetNameEntryFields(_, _, _)
PresetNameEntryFields(w, indexByNameMap, order) ==
    IF Len(order) = 0 THEN << >>
    ELSE LET name == Head(order)
             index == indexByNameMap[name]
             head == PutEntryHead(w, name, index)
         IN  << FieldPutBy(head, "nameLength", 8, 4, LE32(Len(name))),
                FieldPutBy(head, "index", 4, 4, LE32(index)),
                FieldPutBy(head, "name", 0, Len(name), name) >>
             \o PresetNameEntryFields(WritePresetNameEntry(w, name, index),
                                      indexByNameMap, Tail(order))

\* The fields the `write` lambda puts: header, entries, terminating length.
PresetNameSectionFields(w, indexByNameMap, order, nextPresetIndex) ==
    LET header == PutHeader(w, nextPresetIndex)
    IN  << FieldPutBy(header, "header", 4, 4, LE32(nextPresetIndex)) >>
        \o PresetNameEntryFields(header, indexByNameMap, order)
        \o << FieldPutBy(PutTerminatingLength(WritePresetNameEntries(header, indexByNameMap, order)),
                         "terminatingLength", 4, 4, LE32(0)) >>

\* One run of WriteRecordDataForPresetNameIndexMapV0 on a sink that takes
\* every call: the record, the lengths of the flushes and the fields.
PresetNameStream(fill, container, femaleOrder, maleOrder) ==
    LET w == Writer(FreshBuffer(fill), OpenSink(0))
        female == WritePresetNameSection(w, container.femalePresetIndexByName, femaleOrder,
                                         container.nextFemalePresetIndex)
        sink == WriteRecordDataForPresetNameIndexMapV0(OpenSink(0), FreshBuffer(fill), container,
                                                       femaleOrder, maleOrder).writer.sink
    IN  [data |-> sink.data,
         flushes |-> sink.calls,
         fields |-> PresetNameSectionFields(w, container.femalePresetIndexByName, femaleOrder,
                                            container.nextFemalePresetIndex)
                    \o PresetNameSectionFields(female, container.malePresetIndexByName, maleOrder,
                                               container.nextMalePresetIndex)]

\* The offset in the record at which the k-th flush begins.
RECURSIVE FlushStart(_, _)
FlushStart(flushes, k) == IF k <= 1 THEN 0 ELSE FlushStart(flushes, k - 1) + flushes[k - 1]

\* The field lies within the bytes of one flush.
WhollyInOneFlush(flushes, field) ==
    \E k \in 1..Len(flushes) :
        /\ FlushStart(flushes, k) <= field.at
        /\ field.at + field.length <= FlushStart(flushes, k) + flushes[k]

\* The record holds the field's bytes at the field's offset.
HoldsField(data, field) ==
    /\ field.at + field.length <= Len(data)
    /\ SubSeq(data, field.at + 1, field.at + field.length) = field.content

\* The layout of one record: aligned fields of four bytes within one flush,
\* flushes of whole words that fit the buffer, and after each terminating
\* length the next header or the end of the record.
PresetNameStreamIsWellFormed(stream) ==
    LET fields == stream.fields
        fixed == { i \in 1..Len(fields) : fields[i].kind # "name" }
        terminators == { i \in 1..Len(fields) : fields[i].kind = "terminatingLength" }
    IN  /\ \A i \in 1..Len(fields) : HoldsField(stream.data, fields[i])
        /\ \A i \in fixed :
              /\ IsAlignedTo(fields[i].at, 4)
              /\ WhollyInOneFlush(stream.flushes, fields[i])
        /\ \A k \in 1..Len(stream.flushes) :
              /\ IsAlignedTo(stream.flushes[k], 4)
              /\ stream.flushes[k] <= BufferSize
        /\ FlushStart(stream.flushes, Len(stream.flushes) + 1) = Len(stream.data)
        /\ Cardinality(terminators) = 2
        /\ \A i \in terminators :
              /\ i > 1 /\ fields[i - 1].kind # "terminatingLength"
              /\ IF i = Len(fields)
                 THEN fields[i].at + 4 = Len(stream.data)
                 ELSE /\ fields[i + 1].kind = "header"
                      /\ fields[i + 1].at = fields[i].at + 4

\* The record that the last save left in the cosave.
SavedPresetNameIndexMapData ==
    LET records == { i \in 1..Len(cosave) : cosave[i].type = PresetNameIndexMapTypeID }
    IN  cosave[CHOOSE i \in records : TRUE].data

\* The runs of the writer that give the record of the last save, over the
\* iteration orders of the two name maps and the content of the buffer.
RunsOfTheLastSave ==
    { run \in { PresetNameStream(fill, atSave.container, femaleOrder, maleOrder) :
                  fill \in GarbageBytes,
                  femaleOrder \in Orders(DOMAIN atSave.container.femalePresetIndexByName),
                  maleOrder \in Orders(DOMAIN atSave.container.malePresetIndexByName) } :
        /\ run.data = SavedPresetNameIndexMapData
        /\ run.flushes = saveLog.presetNameIndexMap.calls }

\* C30: in the bytes the writer of the preset-name record hands to the host,
\* every header, nameLength and index starts at a multiple of 4 and lies
\* within one flush, every flush is a multiple of 4 long and no longer than
\* the buffer, only the bytes of a name are split between flushes, and each
\* section ends with one nameLength of 0 that the next section or the end
\* of the record follows directly.
C30_PresetNameStreamIsAligned ==
    lifecycle = "running" /\ saveLog.presetNameIndexMap.opened /\ saveLog.presetNameIndexMap.succeeded =>
        LET runs == RunsOfTheLastSave
        IN  /\ runs # {}
            /\ \A run \in runs : PresetNameStreamIsWellFormed(run)

\* A field of the run that two flushes share.
IsSplit(run, field) == field.length > 0 /\ ~WhollyInOneFlush(run.flushes, field)

\* A save whose record went out in more than two flushes, with a name that
\* three flushes share and padding after a name.
C30_Witness ==
    /\ lifecycle = "running"
    /\ saveLog.presetNameIndexMap.opened
    /\ saveLog.presetNameIndexMap.succeeded
    /\ \E run \in RunsOfTheLastSave :
          /\ Len(run.flushes) > 2
          /\ \E i \in 1..Len(run.fields) :
                /\ run.fields[i].kind = "name"
                /\ IsSplit(run, run.fields[i])
                /\ run.fields[i].length > 2 * BufferSize
          /\ \E i \in 1..Len(run.fields) :
                /\ run.fields[i].kind = "name"
                /\ ~IsAlignedTo(run.fields[i].length, 4)

\* A save whose record has an entry that begins right after a flush of a
\* buffer that was not full.
EntryBeginsAfterEarlyFlush ==
    /\ saveLog.presetNameIndexMap.opened
    /\ saveLog.presetNameIndexMap.succeeded
    /\ \E run \in RunsOfTheLastSave :
          \E k \in 1..Len(run.flushes), i \in 1..Len(run.fields) :
              /\ run.flushes[k] < BufferSize
              /\ run.fields[i].kind = "nameLength"
              /\ run.fields[i].at = FlushStart(run.flushes, k + 1)


\* ------------------------------------------------------------------------
\* Records that lost their tail
\* ------------------------------------------------------------------------

\* The tables that are saved: registries and name maps that are not empty,
\* with names shorter and longer than the buffer.
TruncationContainers ==
    { RecordedContainer, OtherRecordedContainer,
      ContainerOf((NameOfLength(BufferSize + 5) :> 0), (NameOfLength(4) :> 0)) }

TruncationInit ==
    /\ stateForActor \in { RecordedRegistry, OtherRecordedRegistry }
    /\ presetContainer \in TruncationContainers
    /\ haveMigratedStorageUtilPresetAssignments = TRUE
    /\ lifecycle = "running"
    /\ cosave = << >>
    /\ atSave = [container |-> EmptyContainer, registry |-> << >>, complete |-> FALSE]
    /\ saveLog = NothingSaved
    /\ loadLog = << >>
    /\ allocation = NoAllocation
    /\ readinessIdle
    /\ lookup = NoLookup
    /\ restarts = 0
    /\ saves = 0
    /\ migration = NoMigration
    /\ dispatchIdle

RECURSIVE SumOf(_)
SumOf(lengths) == IF Len(lengths) = 0 THEN 0 ELSE Head(lengths) + SumOf(Tail(lengths))

\* The number of bytes the writer of the record handed to the host.
WrittenLength(record) ==
    IF record.type = ActorRegistryTypeID THEN SumOf(saveLog.actorRegistry.calls)
    ELSE SumOf(saveLog.presetNameIndexMap.calls)

\* The record holds a proper prefix of what its writer produced.
IsTruncatedRecord(record) == Len(record.data) < WrittenLength(record)

\* The save file is damaged after the save: one record keeps a proper prefix
\* of its bytes.
LoseTailOfRecord ==
    /\ lifecycle = "running"
    /\ atSave.complete
    /\ \A i \in 1..Len(cosave) : ~IsTruncatedRecord(cosave[i])
    /\ \E i \in 1..Len(cosave) :
          \E kept \in 0..(Len(cosave[i].data) - 1) :
              cosave' = [cosave EXCEPT ![i].data = SubSeq(@, 1, kept)]
    /\ UNCHANGED << presetContainer, stateForActor, haveMigratedStorageUtilPresetAssignments, lifecycle, atSave, saveLog, loadLog, restarts, saves, migration >>
    /\ UNCHANGED dispatchVars
    /\ UNCHANGED concurrentVars

TruncationNext ==
    \/ SaveState
    \/ LoseTailOfRecord
    \/ RevertState
    \/ LoadState

TruncationSpec == TruncationInit /\ [][TruncationNext]_vars

\* The load has reported that it failed to read the record.
ReadHasFailed(record) ==
    \E i \in 1..Len(loadLog) :
        loadLog[i] = IF record.type = ActorRegistryTypeID
                     THEN "Failed to load the actor-registry!"
                     ELSE "Failed to load the preset-name-index-map!"

\* C31: for both record kinds, the load of a record that holds a proper
\* prefix of the bytes its writer produced for a table that is not empty
\* reports a failed read.
C31_TruncatedRecordIsFailedRead ==
    lifecycle = "loaded" =>
        \A i \in 1..Len(cosave) : IsTruncatedRecord(cosave[i]) => ReadHasFailed(cosave[i])

\* The part of C31 about the name record.
TruncatedPresetNameRecordIsFailedRead ==
    lifecycle = "loaded" =>
        \A i \in 1..Len(cosave) :
            cosave[i].type = PresetNameIndexMapTypeID /\ IsTruncatedRecord(cosave[i]) => ReadHasFailed(cosave[i])

\* A registry record cut between two entries was loaded without a report,
\* and the registry has fewer entities than were saved.
TruncatedActorRegistryWasAccepted ==
    /\ lifecycle = "loaded"
    /\ loadLog = << >>
    /\ \E i \in 1..Len(cosave) : cosave[i].type = ActorRegistryTypeID /\ IsTruncatedRecord(cosave[i])
    /\ Cardinality(DOMAIN stateForActor) < Cardinality(DOMAIN atSave.registry)
    /\ Cardinality(DOMAIN stateForActor) > 0

\* A name record cut at a multiple of 4 within a name was loaded, and the
\* load reported the failed read.
PresetNameRecordCutWithinAName ==
    /\ lifecycle = "loaded"
    /\ \E i \in 1..Len(cosave) :
          /\ cosave[i].type = PresetNameIndexMapTypeID
          /\ IsTruncatedRecord(cosave[i])
          /\ Len(cosave[i].data) = BufferSize + 4
          /\ ReadHasFailed(cosave[i])


\* ------------------------------------------------------------------------
\* The migration and the entries of the cosave
\* ------------------------------------------------------------------------

\* C32: the migration of the legacy assignments leaves every entity that has
\* an entry in the registry, such as one loaded from the cosave, with the
\* state it has; it only creates entries for entities that have none.
C32_MigrationKeepsExistingEntries ==
    [][ lifecycle = "loaded" /\ lifecycle' = "running" =>
          \A formID \in DOMAIN stateForActor :
              /\ formID \in DOMAIN stateForActor'
              /\ stateForActor'[formID] = stateForActor[formID]
      ]_vars

\* The preset index that a legacy entry asks for, in the tables as they are.
LegacyIndexOf(entry) ==
    IndexByName(presetContainer, IsFemale(entry.formID))[entry.value] + 1

\* After a restart the cosave was loaded and the migration then found a
\* legacy entry for an entity of the cosave that names another preset: the
\* entity has the index of the cosave.
C32_Witness ==
    /\ lifecycle = "running"
    /\ restarts = 1
    /\ atSave.complete
    /\ migration.ran
    /\ \E i \in 1..Len(migration.entries) :
          LET entry == migration.entries[i]
          IN  /\ ~entry.valueIsNull
              /\ entry.formID \in LoadedActors
              /\ entry.formID \in DOMAIN atSave.registry
              /\ entry.formID \in DOMAIN stateForActor
              /\ PresetIndexOf(stateForActor[entry.formID]) = PresetIndexOf(atSave.registry[entry.formID])
              /\ LegacyIndexOf(entry) # PresetIndexOf(stateForActor[entry.formID])


\* ------------------------------------------------------------------------
\* The decoders on arbitrary bytes in arbitrary chunks
\* ------------------------------------------------------------------------

\* The words the records are made of: 0, 1 and the largest value the
\* model's integers hold (0x7FFFFFFF).
DecoderWords == { << 0, 0, 0, 0 >>, << 1, 0, 0, 0 >>, << 255, 255, 255, 127 >> }

RECURSIVE WordsUpTo(_)
WordsUpTo(count) ==
    IF count = 0 THEN { << >> }
    ELSE LET shorter == WordsUpTo(count - 1)
         IN  shorter \cup { data \o word : data \in shorter, word \in DecoderWords }

\* The byte sequences handed to the decoders: whole words, and whole words
\* with one more byte.
DecoderInputs ==
    WordsUpTo(MaxDecoderWords) \cup { data \o << 1 >> : data \in WordsUpTo(MaxDecoderWords - 1) }

\* The sizes of the chunks ReadRecordData hands over, the rest of the record
\* apart: a word, an entry of the registry, a full buffer. A record with one
\* more byte ends in a chunk that is not made of whole words.
ChunkSizes == { 4, 8, BufferSize }

\* The ways the host may cut a record into chunks of at most BufferSize bytes.
RECURSIVE Chunkings(_)
Chunkings(data) ==
    IF Len(data) = 0 THEN { << >> }
    ELSE UNION { { << SubSeq(data, 1, size) >> \o rest : rest \in Chunkings(SubSeq(data, size + 1, Len(data))) } :
                 size \in { n \in ChunkSizes \cup { Len(data) } : n <= Len(data) /\ n <= BufferSize } }

\* The number of elements up to which a reserve() is taken to succeed: the
\* largest table the width of the index allows. A larger request may end in
\* std::bad_alloc.
ReserveLimit == PresetIndexModulus

\* The decoder of the record's type on the chunks, into empty tables.
DecoderRun(record, chunks) ==
    IF record.type = ActorRegistryTypeID
    THEN LET read == ReadRecordDataForActorRegistryV0(FreshBuffer(0), chunks, << >>)
         IN  [ok |-> read.ok, inBounds |-> read.inBounds, reserved |-> 0, registry |-> read.map, container |-> EmptyContainer]
    ELSE LET read == ReadRecordDataForPresetNameIndexMapV0(FreshBuffer(0), chunks, EmptyContainer)
         IN  [ok |-> read.ok, inBounds |-> read.inBounds, reserved |-> read.reserved, registry |-> << >>, container |-> read.container]

\* The message LoadState logs when the decoder of the record returns false.
FailureMessage(record) ==
    IF record.type = ActorRegistryTypeID THEN "Failed to load the actor-registry!"
    ELSE "Failed to load the preset-name-index-map!"

DecoderInit ==
    /\ presetContainer = EmptyContainer
    /\ stateForActor = << >>
    /\ haveMigratedStorageUtilPresetAssignments = TRUE
    /\ lifecycle = "menu"
    /\ \E type \in { ActorRegistryTypeID, PresetNameIndexMapTypeID }, data \in DecoderInputs :
          cosave = << Record(type, 0, data) >>
    /\ atSave = [container |-> EmptyContainer, registry |-> << >>, complete |-> FALSE]
    /\ saveLog = NothingSaved
    /\ loadLog = << >>
    /\ allocation = NoAllocation
    /\ readinessIdle
    /\ lookup = NoLookup
    /\ restarts = 0
    /\ saves = 0
    /\ migration = NoMigration
    /\ dispatchIdle

\* LoadState on a cosave of one record that the host hands over in chunks of
\* its choosing. When a reserve() throws, the exception leaves LoadState and
\* the process ends.
LoadStateInChunks ==
    /\ << lifecycle, "LoadState" >> \in HostCallbackOrder
    /\ \E chunks \in Chunkings(cosave[1].data) :
         LET run == DecoderRun(cosave[1], chunks)
         IN  \E thrown \in IF run.reserved > ReserveLimit THEN BOOLEAN ELSE { FALSE } :
                IF thrown
                THEN /\ lifecycle' = "terminated"
                     /\ UNCHANGED << presetContainer, stateForActor, loadLog >>
                ELSE /\ lifecycle' = "loaded"
                     /\ stateForActor' = run.registry
                     /\ presetContainer' = run.container
                     /\ loadLog' = IF run.ok THEN << >> ELSE << FailureMessage(cosave[1]) >>
    /\ UNCHANGED << haveMigratedStorageUtilPresetAssignments, cosave, atSave, restarts, saves, migration, saveLog >>
    /\ UNCHANGED dispatchVars
    /\ UNCHANGED concurrentVars

DecoderNext ==
    \/ RevertState
    \/ LoadStateInChunks

DecoderSpec == DecoderInit /\ [][DecoderNext]_vars

\* Whatever the chunks, the decoder of the record read every field within
\* the chunk in the buffer and never took more bytes than remained.
StaysWithinTheChunks(record) ==
    \A chunks \in Chunkings(record.data) : DecoderRun(record, chunks).inBounds

\* C33: for every byte sequence, handed over in chunks of any sizes up to
\* the size of the buffer, both decoders return, with success or failure,
\* and read no field beyond the bytes of the chunk: remainingBytes never
\* goes below 0 and the offset never exceeds the size of the chunk.
C33_DecodersReturnAndStayWithinTheChunk ==
    lifecycle \in { "loaded", "terminated" } =>
        /\ lifecycle = "loaded"
        /\ StaysWithinTheChunks(cosave[1])

\* The part of C33 about the bounds of the reads.
DecodersStayWithinTheChunk ==
    lifecycle \in { "loaded", "terminated" } => StaysWithinTheChunks(cosave[1])

\* The decoders return when no header asks for more than ReserveLimit names.
DecodersReturnForPlausibleHeaders ==
    lifecycle = "terminated" =>
        \E chunks \in Chunkings(cosave[1].data) : DecoderRun(cosave[1], chunks).reserved > ReserveLimit

\* A name record that is longer than the buffer was decoded with success,
\* and one name is in the table.
LongNameRecordWasDecoded ==
    /\ lifecycle = "loaded"
    /\ loadLog = << >>
    /\ cosave[1].type = PresetNameIndexMapTypeID
    /\ Len(cosave[1].data) > BufferSize
    /\ DOMAIN presetContainer.femalePresetIndexByName # {}

\* A record of the largest length value was decoded with failure.
HugeNameLengthWasRefused ==
    /\ lifecycle = "loaded"
    /\ loadLog # << >>
    /\ cosave[1].type = PresetNameIndexMapTypeID
    /\ Len(cosave[1].data) > 8
    /\ SubSeq(cosave[1].data, 1, 8) = << 1, 0, 0, 0, 255, 255, 255, 127 >>


\* ------------------------------------------------------------------------
\* The empty name
\* ------------------------------------------------------------------------

\* The name maps of the container hold no empty name.
HasNoEmptyName(container) ==
    \A isFemale \in BOOLEAN : EmptyName \notin DOMAIN IndexByName(container, isFemale)

\* C34: no reachable identity table contains the empty name, and none of
\* the tables that were saved did, so that a nameLength of 0 is written only
\* as the end of a section.
C34_NoEmptyNameIsWritten ==
    /\ HasNoEmptyName(presetContainer)
    /\ HasNoEmptyName(atSave.container)

\* The migration found a legacy entry with an empty value for a loaded
\* actor, the tables were saved with the empty name, and the record has an
\* entry with a nameLength of 0 before the end of its first section.
EmptyNameWasWritten ==
    /\ saves > 0
    /\ atSave.complete
    /\ DOMAIN atSave.container.femalePresetIndexByName = { EmptyName }
    /\ \E i \in 1..Len(cosave) :
          /\ cosave[i].type = PresetNameIndexMapTypeID
          /\ SubSeq(cosave[i].data, 1, 16) = LE32(1) \o LE32(0) \o LE32(0) \o LE32(0)


\* ------------------------------------------------------------------------
\* The indexes of the map and the counter
\* ------------------------------------------------------------------------

\* Every index of the category's name map is below the category's counter.
IndexesAreBelowTheCounter(container, isFemale) ==
    LET map == IndexByName(container, isFemale)
    IN  \A name \in DOMAIN map : map[name] < NextPresetIndex(container, isFemale)

\* C35: in every reachable state, after any allocations, loads and reverts,
\* every index of a category's name map is smaller than the category's
\* counter, so that the next allocation hands out no index of the map.
C35_IndexesAreBelowTheCounter ==
    \A isFemale \in BOOLEAN : IndexesAreBelowTheCounter(presetContainer, isFemale)

\* The part of C35 that holds: the indexes are below the counter as long as
\* no table was saved with the empty name.
IndexesAreBelowTheCounterWithoutEmptyName ==
    HasNoEmptyName(atSave.container) => C35_IndexesAreBelowTheCounter

\* A load has left a category with a name at an index that is not below the
\* category's counter.
LoadedIndexIsNotBelowTheCounter ==
    /\ lifecycle = "loaded"
    /\ atSave.complete
    /\ \E isFemale \in BOOLEAN : ~IndexesAreBelowTheCounter(presetContainer, isFemale)

\* ------------------------------------------------------------------------
\* The registry under notifications
\* ------------------------------------------------------------------------

\* What a collaborator's prepareArguments closure has captured.
CollaboratorCapture ==
    [flags |-> NoFlags, responsiblePluginInterface |-> OtherPlugin, presetName |-> 0]

\* A collaborator calls SendActorChangeEvent for an actor after an action
\* on it, whether or not the actor has an entry in the registry.
CollaboratorSendsActorChangeEvent ==
    /\ apiCalls < MaxTopLevelCalls
    /\ \E thread \in Threads, formID \in LoadedActors :
         /\ callStack[thread] = << >>
         /\ callStack' = [callStack EXCEPT
                             ![thread] = << Activation(formID, CollaboratorCapture) >>]
    /\ apiCalls' = apiCalls + 1
    /\ UNCHANGED << stateForActor, actorChangeEventListeners, actorChangeListenerLock,
                    listenerCalls >>
    /\ UNCHANGED tableVarsButRegistry
    /\ UNCHANGED lookup

NotificationNext ==
    \/ CollaboratorSendsActorChangeEvent
    \/ ListenerAssignsPresetToActor
    \/ EnterSendActorChangeEvent
    \/ InvokeListener
    \/ ListenerReturns
    \/ ExitSendActorChangeEvent

NotificationSpec == DispatchInit /\ [][NotificationNext]_vars

\* A step of SendActorChangeEvent, from its entry to its return.
StepOfSendActorChangeEvent ==
    \/ EnterSendActorChangeEvent
    \/ InvokeListener
    \/ ListenerReturns
    \/ ExitSendActorChangeEvent

\* C36: a notification sent while no listener is registered leaves the
\* registry as it is; a notification creates an entry only when it is
\* delivered, and the entry has the index 0; no step of a notification,
\* delivered or suppressed, changes the index of an entry or removes one.
C36_NotificationsKeepTheIndexes ==
    [][StepOfSendActorChangeEvent =>
          /\ Len(actorChangeEventListeners) = 0 => stateForActor' = stateForActor
          /\ \A formID \in DOMAIN stateForActor :
                /\ formID \in DOMAIN stateForActor'
                /\ PresetIndexOf(stateForActor'[formID]) = PresetIndexOf(stateForActor[formID])
          /\ \A formID \in DOMAIN stateForActor' \ DOMAIN stateForActor :
                /\ stateForActor'[formID] = PackActorState(0, 0, TRUE)
                /\ \E thread \in Threads :
                      /\ Len(callStack'[thread]) > 0
                      /\ Top(callStack'[thread]).actor = formID
                      /\ Top(callStack'[thread]).pc = "deliver"]_vars

\* A notification is being delivered for an actor that had no entry and
\* that no call has assigned a preset to: the entry is the notification's.
C36_Witness ==
    /\ listenerCalls = 0
    /\ \E thread \in Threads :
          /\ Len(callStack[thread]) > 0
          /\ Top(callStack[thread]).pc = "deliver"
          /\ Top(callStack[thread]).actor \in DOMAIN stateForActor
          /\ stateForActor[Top(callStack[thread]).actor] = PackActorState(0, 0, TRUE)

\* A notification has returned with no listener registered, for an actor
\* without an entry.
NotificationReturnedWithoutListeners ==
    /\ Len(actorChangeEventListeners) = 0
    /\ apiCalls > 0
    /\ \A thread \in Threads : callStack[thread] = << >>
    /\ stateForActor = << >>

\* ------------------------------------------------------------------------
\* A request that runs while the plugin becomes ready
\* ------------------------------------------------------------------------

\* The first request has returned, a readiness transition began while it
\* was between its attach and its replay, and the plugin is ready with no
\* fan-out running.
FirstRequestRanDuringTransitionToReady ==
    /\ registrationCall.pc = "returned"
    /\ registrationCall.valid
    /\ registrationCall.calls = 1
    /\ registrationCall.changed
    /\ readinessPhase = "Ready"
    /\ readinessFanOut.event = ""

\* C37: a listener whose request ran while the plugin became ready has
\* received, in that ready period, OBodyIsBecomingReady and then OBodyIsReady
\* once, and nothing else.
C37_ConcurrentRequestReceivesThePairOnce ==
    FirstRequestRanDuringTransitionToReady =>
        readinessFanOut.received[registrationCall.listener] =
            << "OBodyIsBecomingReady", "OBodyIsReady" >>

\* What holds of such a listener: it has received each of the two events at
\* least once, and OBodyIsReady last.
ConcurrentRequestReceivesThePairAtLeastOnce ==
    FirstRequestRanDuringTransitionToReady =>
        LET received == readinessFanOut.received[registrationCall.listener]
        IN  /\ HasReceived(registrationCall.listener, "OBodyIsBecomingReady")
            /\ HasReceived(registrationCall.listener, "OBodyIsReady")
            /\ received[Len(received)] = "OBodyIsReady"

\* The listener was attached before the transition and replayed after it:
\* it has received the pair from the fan-outs and again from the replay.
PairWasReceivedTwice ==
    /\ FirstRequestRanDuringTransitionToReady
    /\ readinessFanOut.received[registrationCall.listener] =
           << "OBodyIsBecomingReady", "OBodyIsReady", "OBodyIsBecomingReady", "OBodyIsReady" >>

\* The listener was attached between the two fan-outs: OBodyIsReady came
\* first, then the replay.
ReadyWasReceivedBeforeThePair ==
    /\ FirstRequestRanDuringTransitionToReady
    /\ readinessFanOut.received[registrationCall.listener] =
           << "OBodyIsReady", "OBodyIsBecomingReady", "OBodyIsReady" >>

\* ------------------------------------------------------------------------
\* Notifications of two threads for one actor
\* ------------------------------------------------------------------------

\* The fan-out at position i of the thread's stack has called its listeners
\* one after the other, each of them once.
HasCalledEveryListener(activation) ==
    /\ Len(activation.seen) = Len(actorChangeEventListeners)
    /\ \A k \in 1..Len(activation.seen) :
          activation.seen[k].listener = actorChangeEventListeners[k]

\* The notification on top of the stack was sent from within a listener of
\* a fan-out for the same actor on the same stack.
IsSentFromFanOutForSameActor(stack) ==
    \E i \in 1..(Len(stack) - 1) :
        /\ stack[i].actor = Top(stack).actor
        /\ stack[i].pc = "deliver"
        /\ stack[i].inListener

\* C38: a notification for an actor that another thread is in the fan-out
\* for does not move until that fan-out has ended; with listeners
\* registered, a notification returns without delivery only when it was sent
\* on the same thread from within a listener of a fan-out for the same
\* actor; and a fan-out returns only after it has called every listener.
C38_NotificationOfOtherThreadWaitsAndIsDelivered ==
    [][\A thread \in Threads :
          LET stack == callStack[thread]
          IN  /\ Len(stack) > 0 /\ Top(stack).pc = "send" =>
                    /\ OtherThreadDelivers(thread, Top(stack).actor) => callStack'[thread] = stack
                    /\ Len(callStack'[thread]) < Len(stack) /\ Len(actorChangeEventListeners) > 0 =>
                          IsSentFromFanOutForSameActor(stack)
              /\ Len(stack) > 0 /\ Top(stack).pc = "deliver" /\ Len(callStack'[thread]) < Len(stack) =>
                    HasCalledEveryListener(Top(stack))]_vars

\* One thread has called the last listener of its fan-out for an actor and
\* has yet to clear the guard, while the other thread's notification for
\* that actor waits for the lock.
C38_Witness ==
    \E thread \in Threads, other \in Threads :
        /\ thread # other
        /\ Len(callStack[thread]) = 1
        /\ callStack[thread][1].pc = "send"
        /\ Len(callStack[other]) = 1
        /\ callStack[other][1].pc = "deliver"
        /\ callStack[other][1].actor = callStack[thread][1].actor
        /\ ~callStack[other][1].inListener
        /\ callStack[other][1].next > Len(actorChangeEventListeners)
        /\ actorChangeListenerLock.owner = other
        /\ EventsAreBeingSent(stateForActor[callStack[thread][1].actor])

\* Both top-level notifications were for one actor; the first has returned
\* and the second has called both listeners.
SecondNotificationForActorIsDelivered ==
    \E thread \in Threads, other \in Threads :
        /\ thread # other
        /\ apiCalls = MaxTopLevelCalls
        /\ listenerCalls = 0
        /\ callStack[other] = << >>
        /\ Len(callStack[thread]) = 1
        /\ callStack[thread][1].pc = "deliver"
        /\ Len(actorChangeEventListeners) = 2
        /\ HasCalledEveryListener(callStack[thread][1])

\* ------------------------------------------------------------------------
\* The two listener locks
\* ------------------------------------------------------------------------

\* A call on a thread's stack that is no SendActorChangeEvent: the handler
\* of a RequestPluginInterface message, OBody::ReadyForPluginAPIUsage or
\* PluginInterface::RegisterEventListener. pc: "attachReadiness" before the
\* readiness listener is attached, "lockReadiness" before
\* readinessListenerLock is taken, "callReadiness" while it is held and the
\* listeners are called, "attachActorChange" before the actor-change
\* listener is attached.
Call(op, pc, listeners) ==
    [op |-> op, pc |-> pc, actor |-> 0, listeners |-> listeners, next |-> 1,
     inListener |-> FALSE, suppressed |-> 0]

\* The function that a call on a stack is a call of.
OpOf(call) == IF call.pc \in { "send", "deliver" } THEN "SendActorChangeEvent" ELSE call.op

\* The actor-change listener that a readiness listener registers.
RegisteredByReadinessListener == "L2"

\* The thread is within a method of a readiness listener, or of an
\* actor-change listener, that the plugin has called.
InReadinessListener(stack) ==
    \E i \in 1..Len(stack) : stack[i].pc = "callReadiness" /\ stack[i].inListener

InActorChangeListener(stack) ==
    \E i \in 1..Len(stack) : stack[i].pc = "deliver" /\ stack[i].inListener

\* The lock_guard of a recursive lock is constructed and destroyed.
Locked(lock, thread) == [owner |-> thread, count |-> lock.count + 1]

Unlocked(lock, thread) ==
    [owner |-> IF lock.count = 1 THEN "none" ELSE thread, count |-> lock.count - 1]

lockFrame ==
    << presetContainer, haveMigratedStorageUtilPresetAssignments, cosave, lifecycle, atSave,
       restarts, saves, migration, saveLog, loadLog, allocation, registrationCall,
       readinessFanOut >>

LockInit ==
    /\ presetContainer = EmptyContainer
    /\ stateForActor = (4660 :> PackActorState(1, 0, FALSE))
    /\ haveMigratedStorageUtilPresetAssignments = TRUE
    /\ lifecycle = "running"
    /\ cosave = << >>
    /\ atSave = [container |-> EmptyContainer, registry |-> << >>, complete |-> FALSE]
    /\ saveLog = NothingSaved
    /\ loadLog = << >>
    /\ allocation = NoAllocation
    /\ readinessPhase \in { "BecomingReady", "Ready" }
    /\ readyForPluginAPIUsage = (readinessPhase = "Ready")
    /\ readinessEventListeners \in { << >>, << "R1" >> }
    /\ registrationCall = NoRegistrationCall
    /\ readinessFanOut = NoReadinessFanOut
    /\ readinessListenerLock = [owner |-> "none", count |-> 0]
    /\ lookup = NoLookup
    /\ restarts = 0
    /\ saves = 0
    /\ migration = NoMigration
    /\ actorChangeEventListeners = << "L1" >>
    /\ actorChangeListenerLock = [owner |-> "none", count |-> 0]
    /\ callStack = [thread \in Threads |-> << >>]
    /\ apiCalls = 0
    /\ listenerCalls = 0

\* A plugin sends a RequestPluginInterface message from outside any
\* listener.
PluginSendsRequestPluginInterface ==
    /\ apiCalls < MaxTopLevelCalls
    /\ \E thread \in Threads, listener \in ReadinessListeners :
         /\ callStack[thread] = << >>
         /\ callStack' = [callStack EXCEPT
                             ![thread] = << Call("RequestPluginInterface", "attachReadiness", << listener >>) >>]
    /\ apiCalls' = apiCalls + 1
    /\ UNCHANGED << stateForActor, actorChangeEventListeners, actorChangeListenerLock, listenerCalls >>
    /\ UNCHANGED << readyForPluginAPIUsage, readinessEventListeners, readinessPhase, readinessListenerLock, lookup >>
    /\ UNCHANGED lockFrame

\* The actor-change listener that is running sends a RequestPluginInterface
\* message; it is not within a method of a readiness listener.
ActorChangeListenerSendsRequestPluginInterface ==
    /\ listenerCalls < MaxListenerCalls
    /\ \E thread \in Threads, listener \in ReadinessListeners :
         LET stack == callStack[thread]
         IN  /\ Len(stack) > 0
             /\ Len(stack) < MaxNesting
             /\ Top(stack).pc = "deliver"
             /\ Top(stack).inListener
             /\ ~InReadinessListener(stack)
             /\ callStack' = [callStack EXCEPT
                                 ![thread] = Append(stack, Call("RequestPluginInterface", "attachReadiness", << listener >>))]
    /\ listenerCalls' = listenerCalls + 1
    /\ UNCHANGED << stateForActor, actorChangeEventListeners, actorChangeListenerLock, apiCalls >>
    /\ UNCHANGED << readyForPluginAPIUsage, readinessEventListeners, readinessPhase, readinessListenerLock, lookup >>
    /\ UNCHANGED lockFrame

\* obody.AttachEventListener(readinessListener): the list is changed under
\* readinessListenerLock.
AttachReadinessListenerUnderLock ==
    /\ \E thread \in Threads :
         LET stack == callStack[thread]
         IN  /\ Len(stack) > 0
             /\ Top(stack).pc = "attachReadiness"
             /\ MayLock(readinessListenerLock, thread)
             /\ readinessEventListeners' = AttachReadinessListener(readinessEventListeners, Top(stack).listeners[1])
             /\ callStack' = [callStack EXCEPT ![thread][Len(stack)].pc = "lockReadiness"]
    /\ UNCHANGED << stateForActor, actorChangeEventListeners, actorChangeListenerLock, apiCalls, listenerCalls >>
    /\ UNCHANGED << readyForPluginAPIUsage, readinessPhase, readinessListenerLock, lookup >>
    /\ UNCHANGED lockFrame

\* The handler of the request takes readinessListenerLock and tests the
\* flag: it goes on to replay the events to its listener, or returns.
LockForReplay ==
    /\ \E thread \in Threads :
         LET stack == callStack[thread]
         IN  /\ Len(stack) > 0
             /\ Top(stack).pc = "lockReadiness"
             /\ Top(stack).op = "RequestPluginInterface"
             /\ MayLock(readinessListenerLock, thread)
             /\ IF readyForPluginAPIUsage
                THEN /\ readinessListenerLock' = Locked(readinessListenerLock, thread)
                     /\ callStack' = [callStack EXCEPT ![thread][Len(stack)].pc = "callReadiness"]
                ELSE /\ callStack' = [callStack EXCEPT ![thread] = Pop(stack)]
                     /\ UNCHANGED readinessListenerLock
    /\ UNCHANGED << stateForActor, actorChangeEventListeners, actorChangeListenerLock, apiCalls, listenerCalls >>
    /\ UNCHANGED << readyForPluginAPIUsage, readinessEventListeners, readinessPhase, lookup >>
    /\ UNCHANGED lockFrame

\* The host's data-loaded signal calls ReadyForPluginAPIUsage after
\* BecomingReadyForPluginAPIUsage has returned.
HostCallsReadyForPluginAPIUsage ==
    /\ readinessPhase = "BecomingReady"
    /\ \A thread \in Threads :
          \A i \in 1..Len(callStack[thread]) : OpOf(callStack[thread][i]) # "ReadyForPluginAPIUsage"
    /\ \E thread \in Threads :
         /\ callStack[thread] = << >>
         /\ callStack' = [callStack EXCEPT
                             ![thread] = << Call("ReadyForPluginAPIUsage", "lockReadiness", << >>) >>]
    /\ UNCHANGED << stateForActor, actorChangeEventListeners, actorChangeListenerLock, apiCalls, listenerCalls >>
    /\ UNCHANGED << readyForPluginAPIUsage, readinessEventListeners, readinessPhase, readinessListenerLock, lookup >>
    /\ UNCHANGED lockFrame

\* ReadyForPluginAPIUsage takes readinessListenerLock, sets the flag and
\* begins the fan-out of OBodyIsReady to the listeners of the list.
LockForReadyFanOut ==
    /\ \E thread \in Threads :
         LET stack == callStack[thread]
         IN  /\ Len(stack) > 0
             /\ Top(stack).pc = "lockReadiness"
             /\ Top(stack).op = "ReadyForPluginAPIUsage"
             /\ MayLock(readinessListenerLock, thread)
             /\ readinessListenerLock' = Locked(readinessListenerLock, thread)
             /\ callStack' = [callStack EXCEPT
                                 ![thread][Len(stack)] =
                                     [Top(stack) EXCEPT !.pc = "callReadiness",
                                                        !.listeners = readinessEventListeners]]
    /\ readyForPluginAPIUsage' = TRUE
    /\ readinessPhase' = "Ready"
    /\ UNCHANGED << stateForActor, actorChangeEventListeners, actorChangeListenerLock, apiCalls, listenerCalls >>
    /\ UNCHANGED << readinessEventListeners, lookup >>
    /\ UNCHANGED lockFrame

\* The replay or the fan-out calls the next readiness listener; the lock is
\* held.
CallReadinessListenerUnderLock ==
    /\ \E thread \in Threads :
         LET stack == callStack[thread]
         IN  /\ Len(stack) > 0
             /\ Top(stack).pc = "callReadiness"
             /\ ~Top(stack).inListener
             /\ Top(stack).next <= Len(Top(stack).listeners)
             /\ callStack' = [callStack EXCEPT ![thread][Len(stack)].inListener = TRUE]
    /\ UNCHANGED << stateForActor, actorChangeEventListeners, actorChangeListenerLock, apiCalls, listenerCalls >>
    /\ UNCHANGED << readyForPluginAPIUsage, readinessEventListeners, readinessPhase, readinessListenerLock, lookup >>
    /\ UNCHANGED lockFrame

\* The readiness listener that is running calls AssignPresetToActor from
\* its OBodyIsReady.
ReadinessListenerAssignsPresetToActor ==
    /\ listenerCalls < MaxListenerCalls
    /\ \E thread \in Threads, formID \in LoadedActors, payload \in AssignPresetPayloads :
         LET stack == callStack[thread]
             listener == Top(stack).listeners[Top(stack).next]
             call == AssignPresetToActor(stateForActor, formID, payload, listener)
         IN  /\ Len(stack) > 0
             /\ Len(stack) < MaxNesting
             /\ Top(stack).pc = "callReadiness"
             /\ Top(stack).inListener
             /\ stateForActor' = call.registry
             /\ callStack' = [callStack EXCEPT
                                 ![thread] = IF call.sends
                                             THEN Append(stack, Activation(formID, call.capture))
                                             ELSE stack]
             /\ lookup' = AssignPresetCall(apiCalls + listenerCalls + 1, stateForActor, formID, payload)
    /\ listenerCalls' = listenerCalls + 1
    /\ UNCHANGED << actorChangeEventListeners, actorChangeListenerLock, apiCalls >>
    /\ UNCHANGED << readyForPluginAPIUsage, readinessEventListeners, readinessPhase, readinessListenerLock >>
    /\ UNCHANGED lockFrame

\* The readiness listener that is running calls RegisterEventListener from
\* its OBodyIsReady; it is not within a method of an actor-change listener.
ReadinessListenerRegistersEventListener ==
    /\ listenerCalls < MaxListenerCalls
    /\ \E thread \in Threads :
         LET stack == callStack[thread]
         IN  /\ Len(stack) > 0
             /\ Len(stack) < MaxNesting
             /\ Top(stack).pc = "callReadiness"
             /\ Top(stack).inListener
             /\ ~InActorChangeListener(stack)
             /\ callStack' = [callStack EXCEPT
                                 ![thread] = Append(stack, Call("RegisterEventListener", "attachActorChange",
                                                                << RegisteredByReadinessListener >>))]
    /\ listenerCalls' = listenerCalls + 1
    /\ UNCHANGED << stateForActor, actorChangeEventListeners, actorChangeListenerLock, apiCalls >>
    /\ UNCHANGED << readyForPluginAPIUsage, readinessEventListeners, readinessPhase, readinessListenerLock, lookup >>
    /\ UNCHANGED lockFrame

\* OBody::AttachEventListener(IActorChangeEventListener&): the listener is
\* added to the list under actorChangeListenerLock.
AttachActorChangeListenerUnderLock ==
    /\ \E thread \in Threads :
         LET stack == callStack[thread]
         IN  /\ Len(stack) > 0
             /\ Top(stack).pc = "attachActorChange"
             /\ MayLock(actorChangeListenerLock, thread)
             /\ actorChangeEventListeners' = Append(actorChangeEventListeners, Top(stack).listeners[1])
             /\ callStack' = [callStack EXCEPT ![thread] = Pop(stack)]
    /\ UNCHANGED << stateForActor, actorChangeListenerLock, apiCalls, listenerCalls >>
    /\ UNCHANGED << readyForPluginAPIUsage, readinessEventListeners, readinessPhase, readinessListenerLock, lookup >>
    /\ UNCHANGED lockFrame

\* The method of the readiness listener returns.
ReadinessListenerReturns ==
    /\ \E thread \in Threads :
         LET stack == callStack[thread]
         IN  /\ Len(stack) > 0
             /\ Top(stack).pc = "callReadiness"
             /\ Top(stack).inListener
             /\ callStack' = [callStack EXCEPT
                                 ![thread][Len(stack)] =
                                     [Top(stack) EXCEPT !.inListener = FALSE, !.next = @ + 1]]
    /\ UNCHANGED << stateForActor, actorChangeEventListeners, actorChangeListenerLock, apiCalls, listenerCalls >>
    /\ UNCHANGED << readyForPluginAPIUsage, readinessEventListeners, readinessPhase, readinessListenerLock, lookup >>
    /\ UNCHANGED lockFrame

\* The replay or the fan-out has called its listeners: the lock_guard
\* releases readinessListenerLock and the call returns.
ReturnFromReadinessCalls ==
    /\ \E thread \in Threads :
         LET stack == callStack[thread]
         IN  /\ Len(stack) > 0
             /\ Top(stack).pc = "callReadiness"
             /\ ~Top(stack).inListener
             /\ Top(stack).next > Len(Top(stack).listeners)
             /\ readinessListenerLock' = Unlocked(readinessListenerLock, thread)
             /\ callStack' = [callStack EXCEPT ![thread] = Pop(stack)]
    /\ UNCHANGED << stateForActor, actorChangeEventListeners, actorChangeListenerLock, apiCalls, listenerCalls >>
    /\ UNCHANGED << readyForPluginAPIUsage, readinessEventListeners, readinessPhase, lookup >>
    /\ UNCHANGED lockFrame

LockNext ==
    \/ PluginAssignsPresetToActor
    \/ PluginSendsRequestPluginInterface
    \/ ActorChangeListenerSendsRequestPluginInterface
    \/ AttachReadinessListenerUnderLock
    \/ LockForReplay
    \/ HostCallsReadyForPluginAPIUsage
    \/ LockForReadyFanOut
    \/ CallReadinessListenerUnderLock
    \/ ReadinessListenerAssignsPresetToActor
    \/ ReadinessListenerRegistersEventListener
    \/ AttachActorChangeListenerUnderLock
    \/ ReadinessListenerReturns
    \/ ReturnFromReadinessCalls
    \/ EnterSendActorChangeEvent
    \/ InvokeListener
    \/ ListenerReturns
    \/ ExitSendActorChangeEvent

LockSpec == LockInit /\ [][LockNext]_vars

\* The thread's innermost call is at a lock_guard of a lock that `other`
\* owns.
WaitsForLockOf(thread, other) ==
    /\ Len(callStack[thread]) > 0
    /\ \/ /\ Top(callStack[thread]).pc \in { "send", "attachActorChange" }
          /\ actorChangeListenerLock.owner = other
       \/ /\ Top(callStack[thread]).pc \in { "attachReadiness", "lockReadiness" }
          /\ readinessListenerLock.owner = other

\* C39: no two threads wait for each other's listener locks.
C39_ListenerLocksDoNotDeadlock ==
    \A thread \in Threads, other \in Threads :
        thread # other => ~(WaitsForLockOf(thread, other) /\ WaitsForLockOf(other, thread))

\* What holds: two threads wait for each other only when one of them sent a
\* RequestPluginInterface message from within an actor-change listener.
DeadlockNeedsRequestFromActorChangeListener ==
    \A thread \in Threads, other \in Threads :
        thread # other /\ WaitsForLockOf(thread, other) /\ WaitsForLockOf(other, thread) =>
            \E t \in { thread, other } :
                /\ OpOf(Top(callStack[t])) = "RequestPluginInterface"
                /\ InActorChangeListener(callStack[t])

\* One thread replays OBodyIsReady under readinessListenerLock and its
\* listener's notification waits for actorChangeListenerLock; the other is
\* in a fan-out under actorChangeListenerLock and its listener's request
\* waits for readinessListenerLock.
ThreadsWaitForEachOthersLocks ==
    \E thread \in Threads, other \in Threads :
        /\ thread # other
        /\ Len(callStack[thread]) > 0
        /\ Len(callStack[other]) > 0
        /\ Top(callStack[thread]).pc = "send"
        /\ InReadinessListener(callStack[thread])
        /\ readinessListenerLock.owner = thread
        /\ Top(callStack[other]).pc \in { "attachReadiness", "lockReadiness" }
        /\ InActorChangeListener(callStack[other])
        /\ actorChangeListenerLock.owner = other

\* A fan-out of one listener class runs while a fan-out of the other class
\* runs on the other thread.
FanOutsOfBothClassesRun ==
    \E thread \in Threads, other \in Threads :
        /\ thread # other
        /\ Len(callStack[thread]) = 1
        /\ Top(callStack[thread]).pc = "callReadiness"
        /\ Top(callStack[thread]).inListener
        /\ Len(callStack[other]) = 1
        /\ Top(callStack[other]).pc = "deliver"
        /\ Top(callStack[other]).inListener

\* ------------------------------------------------------------------------
\* The assertions of the writers
\* ------------------------------------------------------------------------

\* C40: in every save, every assert that the writer of the actor registry
\* and the writer of the preset names came to has passed: the offset is at
\* most BufferSize, it is a multiple of 4 before each header and each entry,
\* it is at most BufferSize - 8 before an entry's nameLength and state are
\* stored, and no byte of a name remains when the copy loop ends.
C40_AssertionsOfTheWritersHold ==
    /\ saveLog.actorRegistry.assertsHold
    /\ saveLog.presetNameIndexMap.assertsHold

\* A name longer than two buffers was saved after a name that left fewer
\* than 8 bytes of the buffer free: the writer has flushed before the entry
\* and within the name.
C40_Witness ==
    /\ saveLog.presetNameIndexMap.opened
    /\ saveLog.presetNameIndexMap.succeeded
    /\ saveLog.presetNameIndexMap.assertsHold
    /\ Len(saveLog.presetNameIndexMap.calls) >= 5
    /\ \E name \in DOMAIN atSave.container.femalePresetIndexByName : Len(name) > 2 * BufferSize
    /\ \E name \in DOMAIN atSave.container.femalePresetIndexByName : Len(name) = 0

\* The registry writer has flushed a full buffer and what remained.
RegistryWasSavedInTwoFlushes ==
    /\ saveLog.actorRegistry.succeeded
    /\ saveLog.actorRegistry.assertsHold
    /\ Len(saveLog.actorRegistry.calls) = 2


=============================================================================
